---- MODULE Spec2Model ----
(***************************************************************************)
(* Diagram layout-and-validation pipeline of chanino/skills                *)
(* (powerpoint-diagrams/examples/flowchart.py, org_chart.py):              *)
(*   Define -> QC1 validate_definition -> compute_layout -> QC2 validate   *)
(*          -> render_all -> QC3 validate_render -> save.                  *)
(*                                                                         *)
(* Strings that the code only compares (ids, presets, names) are TLA+      *)
(* strings.  A text the code measures or strips (len, strip) is a sequence *)
(* of one-character strings.  Styling attributes that no check reads       *)
(* (colours, bold, shadow, line width, arrow heads) are left out of the    *)
(* placed records; every definition carries a palette key that resolves.   *)
(***************************************************************************)
EXTENDS Integers, Sequences, FiniteSets, TLC

VARIABLES
    SHAPES,        \* module global SHAPES: the shape definitions
    CONNECTIONS,   \* module global CONNECTIONS: the connection definitions
    pc,            \* position of the __main__ script
    qc1,           \* result of validate_definition
    layout,        \* result of compute_layout
    qc2,           \* result of validate
    tree,          \* content children of the rendered spTree
    qc3,           \* result of validate_render
    saved,         \* prs.save(output) was executed
    frame,         \* two invocations of compute_layout: the locals of each
    cells,         \* the counter cells (_id) the invocations' nid() closures hold
    placed,        \* a placed layout handed to validate: shapes, connectors, labels
    vres,          \* result of validate on it
    gen,           \* the generator script that is run
    call,          \* the arguments of a function called on its own
    result         \* what that call returned or raised

defVars == <<SHAPES, CONNECTIONS>>
mainVars == <<pc, qc1, layout, qc2, tree, qc3, saved>>
twoVars == <<frame, cells>>
valVars == <<placed, vres>>
genVars == <<gen>>
callVars == <<call, result>>
vars == <<SHAPES, CONNECTIONS, pc, qc1, layout, qc2, tree, qc3, saved,
          frame, cells, placed, vres, gen, call, result>>

(***************************************************************************)
(* Bounds of the model                                                     *)
(***************************************************************************)
MaxShapes == 2
MaxConns == 2
MaxLabels == 1

(***************************************************************************)
(* Generic helpers (Python list/set primitives)                            *)
(***************************************************************************)
SeqsUpTo(S, n) == UNION {[1..k -> S] : k \in 0..n}

SetOf(seq) == {seq[i] : i \in DOMAIN seq}

\* list.count(x)
Count(seq, x) == Cardinality({i \in DOMAIN seq : seq[i] = x})

Min(a, b) == IF a <= b THEN a ELSE b
Max(a, b) == IF a >= b THEN a ELSE b
Abs(a) == IF a < 0 THEN 0 - a ELSE a

\* str.strip(): drop leading and trailing whitespace
RECURSIVE LStrip(_)
LStrip(t) == IF t # <<>> /\ Head(t) = " " THEN LStrip(Tail(t)) ELSE t
RECURSIVE RStrip(_)
RStrip(t) ==
    IF t # <<>> /\ t[Len(t)] = " " THEN RStrip(SubSeq(t, 1, Len(t) - 1)) ELSE t
\* mutant: the text is tested as it is, not stripped
strip_Omitted(t) == t

strip(t) == RStrip(LStrip(t))

(***************************************************************************)
(* PHASE 1: DEFINE - the inputs the model draws                            *)
(***************************************************************************)
Ids == {"a", "b"}
NoSuchId == "q"
Texts == {<<>>, <<" ">>, <<"G", "O">>}
NoLabel == <<>>
Labels == {NoLabel, <<"Y", "E", "S">>}

VALID_PRESETS ==
    {"flowChartProcess", "flowChartDecision", "flowChartTerminator",
     "flowChartMagneticDisk", "roundRect", "rect", "ellipse",
     "hexagon", "cloud", "flowChartDocument", "flowChartPreparation",
     "flowChartInputOutput", "flowChartAlternateProcess",
     "flowChartConnector", "flowChartPredefinedProcess"}

AllKeys == Ids \cup {NoSuchId}

\* the ids of the shapes of a longer definition: "1", "2", ...
MaxRow == 6
RowId(i) == ToString(i)
Keys == AllKeys \cup {RowId(i) : i \in 1..MaxRow}

\* definitions handed to validate_definition alone: every kind of label text,
\* a preset with dimensions, an unrecognised one and the empty/absent one,
\* and connections whose endpoints may name no shape
DefShapeSpecs == [id : Ids, text : Texts, preset : {"flowChartProcess", "star", ""}]
DefConnSpecs == [src : AllKeys, tgt : AllKeys, label : {NoLabel}]

\* definitions handed to the pipeline: presets with two different heights, one
\* recognised preset without dimensions and one unrecognised, connections with
\* and without a label, and one connection to a shape that does not exist
FlowShapeSpecs ==
    [id : Ids, text : {<<>>, <<"G", "O">>},
     preset : {"flowChartProcess", "flowChartDecision", "hexagon", "star"}]
FlowConnSpecs ==
    [src : Ids, tgt : Ids, label : Labels]
    \cup {[src |-> "a", tgt |-> NoSuchId, label |-> NoLabel]}

\* definitions handed to the two interleaved invocations of compute_layout
TwoShapeSpecs == [id : Ids, text : {<<"G", "O">>}, preset : {"flowChartProcess", "star"}]
TwoConnSpecs == [src : Ids, tgt : Ids, label : Labels]

(***************************************************************************)
(* QC1: validate_definition                                                *)
(***************************************************************************)
NoError == [kind |-> "", names |-> {}]
Returned(ws) == [raised |-> FALSE, error |-> NoError, warnings |-> ws]
Raised(kind, names) ==
    [raised |-> TRUE, error |-> [kind |-> kind, names |-> names], warnings |-> <<>>]
NotRun == [raised |-> FALSE, error |-> [kind |-> "not run", names |-> {}], warnings |-> <<>>]

DefWarning(kind, id, preset) == [kind |-> kind, id |-> id, preset |-> preset]

\* ids = [s["id"] for s in shapes]
ShapeIds(shapes) == [i \in DOMAIN shapes |-> shapes[i].id]

\* dupes = [x for x in ids if ids.count(x) > 1]
Dupes(ids) == SelectSeq(ids, LAMBDA x : Count(ids, x) > 1)

\* mutant: the target of a connection is looked up before its source
RECURSIVE ConnectionChecks_TargetFirst(_, _, _, _)
ConnectionChecks_TargetFirst(connections, id_set, k, ws) ==
    IF k > Len(connections) THEN Returned(ws)
    ELSE LET conn == connections[k] IN
         IF conn.tgt \notin id_set
         THEN Raised("Connection target not found", {conn.tgt})
         ELSE IF conn.src \notin id_set
         THEN Raised("Connection source not found", {conn.src})
         ELSE ConnectionChecks_TargetFirst(connections, id_set, k + 1,
                  IF conn.src = conn.tgt
                  THEN Append(ws, DefWarning("Self-loop", conn.src, ""))
                  ELSE ws)

\* the loop over connections, from connection k on, with the warnings so far
RECURSIVE ConnectionChecks(_, _, _, _)
ConnectionChecks(connections, id_set, k, ws) ==
    IF k > Len(connections) THEN Returned(ws)
    ELSE LET conn == connections[k] IN
         IF conn.src \notin id_set
         THEN Raised("Connection source not found", {conn.src})
         ELSE IF conn.tgt \notin id_set
         THEN Raised("Connection target not found", {conn.tgt})
         ELSE ConnectionChecks(connections, id_set, k + 1,
                  IF conn.src = conn.tgt
                  THEN Append(ws, DefWarning("Self-loop", conn.src, ""))
                  ELSE ws)

\* the loop over shapes: empty text, then unknown preset, per shape
RECURSIVE ShapeChecks(_, _, _)
ShapeChecks(shapes, k, ws) ==
    IF k > Len(shapes) THEN ws
    ELSE LET s == shapes[k]
             w1 == IF strip(s.text) = <<>>
                   THEN Append(ws, DefWarning("Empty text", s.id, ""))
                   ELSE ws
             w2 == IF s.preset # "" /\ s.preset \notin VALID_PRESETS
                   THEN Append(w1, DefWarning("Unknown preset", s.id, s.preset))
                   ELSE w1
         IN ShapeChecks(shapes, k + 1, w2)

\* mutant: the connections are checked before the duplicate ids
validate_definition_ConnectionsFirst(shapes, connections) ==
    LET ids == ShapeIds(shapes)
        r == ConnectionChecks(connections, SetOf(ids), 1, <<>>)
    IN IF r.raised THEN r
       ELSE IF Len(ids) # Cardinality(SetOf(ids))
       THEN Raised("Duplicate shape IDs", SetOf(Dupes(ids)))
       ELSE Returned(ShapeChecks(shapes, 1, r.warnings))

validate_definition(shapes, connections) ==
    LET ids == ShapeIds(shapes) IN
    IF Len(ids) # Cardinality(SetOf(ids))
    THEN Raised("Duplicate shape IDs", SetOf(Dupes(ids)))
    ELSE LET r == ConnectionChecks(connections, SetOf(ids), 1, <<>>) IN
         IF r.raised THEN r
         ELSE Returned(ShapeChecks(shapes, 1, r.warnings))

(***************************************************************************)
(* PHASE 2: COMPUTE                                                        *)
(***************************************************************************)
SLIDE_W == 9144000
SLIDE_H == 5143500
CALIBRI_AVG_CHAR_W == 45000
PT == 12700
GAP == 228600
IdStart == 2

Rect(x, y, cx, cy) == [x |-> x, y |-> y, cx |-> cx, cy |-> cy]

\* range(max_size, min_size - 1, -100), in iteration order
RECURSIVE SizeCandidates(_, _)
SizeCandidates(sz, min_size) ==
    IF sz < min_size THEN <<>>
    ELSE <<sz>> \o SizeCandidates(sz - 100, min_size)

\* text_w <= usable_w, with text_w = len(text) * (CALIBRI_AVG_CHAR_W * (sz/100.0) / 100.0).
\* For the sizes used (multiples of 50) every float in the product is an exact
\* integer or half-integer, so the comparison is the integer one, scaled by 10
\* and reduced by 1000 to stay within 32 bits.
WidthFits(text, sz, usable_w) ==
    Len(text) * sz * (CALIBRI_AVG_CHAR_W \div 1000) <= usable_w * 10

\* line_h <= usable_h, with line_h = (sz/100.0) * PT * 1.2 = 152.4 * sz.  The float
\* product of the integer 127*sz with 1.2 rounds to the integer 152.4*sz or just
\* below it, so against an integer bound the comparison is the exact one.
HeightFits(sz, usable_h) ==
    sz * ((PT * 12) \div 100) <= usable_h * 10

RECURSIVE FirstFit(_, _, _, _, _)
FirstFit(cands, text, usable_w, usable_h, min_size) ==
    IF cands = <<>> THEN min_size
    ELSE IF WidthFits(text, Head(cands), usable_w) /\ HeightFits(Head(cands), usable_h)
    THEN Head(cands)
    ELSE FirstFit(Tail(cands), text, usable_w, usable_h, min_size)

\* mutant: the line height is not compared with the box
estimate_font_size_WidthOnly(text, cx, cy, min_size, max_size) ==
    IF text = <<>> THEN max_size
    ELSE FirstFit(SizeCandidates(max_size, min_size), text,
                  cx - 182880, 152400, min_size)

estimate_font_size(text, cx, cy, min_size, max_size) ==
    IF text = <<>> THEN max_size
    ELSE FirstFit(SizeCandidates(max_size, min_size), text,
                  cx - 182880, cy - 91440, min_size)

\* mutant: the padding is not taken off the box
text_fits_NoPadding(text, cx, font_size) ==
    IF text = <<>> THEN TRUE
    ELSE WidthFits(text, font_size, cx)

text_fits(text, cx, font_size) ==
    IF text = <<>> THEN TRUE
    ELSE WidthFits(text, font_size, cx - 182880)

\* mutant: flip_h is set when the target lies right of the source
compute_connector_bbox_FlipInverted(src_rect, tgt_rect, direction) ==
    LET sp_x == src_rect.x + src_rect.cx
        sp_y == src_rect.y + (src_rect.cy \div 2)
        tp_x == tgt_rect.x
        tp_y == tgt_rect.y + (tgt_rect.cy \div 2)
    IN [rect |-> Rect(Min(sp_x, tp_x), Min(sp_y, tp_y),
                      Max(Abs(tp_x - sp_x), 1), Max(Abs(tp_y - sp_y), 1)),
        flip_h |-> tp_x > sp_x,
        flip_v |-> tp_y < sp_y,
        src_idx |-> 1,
        tgt_idx |-> 3]

compute_connector_bbox(src_rect, tgt_rect, direction) ==
    LET sp_x == IF direction = "right_to_left"
                THEN src_rect.x + src_rect.cx
                ELSE src_rect.x + (src_rect.cx \div 2)
        sp_y == IF direction = "right_to_left"
                THEN src_rect.y + (src_rect.cy \div 2)
                ELSE src_rect.y + src_rect.cy
        tp_x == IF direction = "right_to_left"
                THEN tgt_rect.x
                ELSE tgt_rect.x + (tgt_rect.cx \div 2)
        tp_y == IF direction = "right_to_left"
                THEN tgt_rect.y + (tgt_rect.cy \div 2)
                ELSE tgt_rect.y
    IN [rect |-> Rect(Min(sp_x, tp_x), Min(sp_y, tp_y),
                      Max(Abs(tp_x - sp_x), 1), Max(Abs(tp_y - sp_y), 1)),
        flip_h |-> tp_x < sp_x,
        flip_v |-> tp_y < sp_y,
        src_idx |-> IF direction = "right_to_left" THEN 1 ELSE 2,
        tgt_idx |-> IF direction = "right_to_left" THEN 3 ELSE 0]

\* DIMS: shape dimensions by preset; <<0, 0>> stands for a missing key
DIMS(preset) ==
    CASE preset = "flowChartProcess" -> <<1371600, 685800>>
      [] preset = "flowChartDecision" -> <<1371600, 914400>>
      [] preset = "flowChartTerminator" -> <<1371600, 571500>>
      [] OTHER -> <<0, 0>>

\* mutant: the counter is read and not incremented
nid_NoIncrement(counter) == [v |-> counter, next |-> counter]

\* nid(): v = _id[0]; _id[0] += 1; return v
nid(counter) == [v |-> counter, next |-> counter + 1]

\* the local variables of one compute_layout invocation; shape_map holds, per
\* key, the index in placed_shapes of the shape mapped to it (0: no such key)
Frame0 ==
    [pc |-> "enter", i |-> 1, counter |-> 0, title_id |-> 0, bg_id |-> 0,
     title_rect |-> Rect(0, 0, 0, 0),
     placed_shapes |-> <<>>, shape_map |-> [k \in Keys |-> 0],
     placed_connectors |-> <<>>, placed_labels |-> <<>>, error |-> ""]

\* mutant: the columns are spaced by the shape width alone
xs_NoGap(shapes, i) ==
    LET n == Len(shapes)
        sw == 1371600
        total_w == n * sw + (n - 1) * GAP
        left == (SLIDE_W - total_w) \div 2
    IN left + i * sw

\* left edge of column i (0-based) of the single row
xs(shapes, i) ==
    LET n == Len(shapes)
        sw == 1371600
        total_w == n * sw + (n - 1) * GAP
        left == (SLIDE_W - total_w) \div 2
    IN left + i * (sw + GAP)

base_cy == 685800
base_y == (SLIDE_H - base_cy) \div 2

\* the for-loops' control: leave a loop whose list is exhausted, and skip the
\* connections without a label in the label loop
RECURSIVE Advance(_, _, _)
Advance(F, shapes, connections) ==
    CASE F.pc = "shapes" /\ F.i > Len(shapes) ->
            Advance([F EXCEPT !.pc = "connectors", !.i = 1], shapes, connections)
      [] F.pc = "connectors" /\ F.i > Len(connections) ->
            Advance([F EXCEPT !.pc = "labels", !.i = 1], shapes, connections)
      [] F.pc = "labels" /\ F.i > Len(connections) ->
            [F EXCEPT !.pc = "return", !.i = 1]
      [] F.pc = "labels" /\ F.i <= Len(connections) /\ connections[F.i].label = <<>> ->
            Advance([F EXCEPT !.i = @ + 1], shapes, connections)
      [] OTHER -> F

\* mutant: every shape is placed with its top at base_y
PlaceShape_TopAligned(F, shapes) ==
    LET s == shapes[F.i]
        id == nid(F.counter)
        dims == DIMS(s.preset)
        cx == dims[1]
        cy == dims[2]
        y == base_y
        ps == [shape_id |-> id.v, key |-> s.id, text |-> s.text, preset |-> s.preset,
               rect |-> Rect(xs(shapes, F.i - 1), y, cx, cy),
               font_size |-> estimate_font_size(s.text, cx, cy, 800, 1400),
               z_layer |-> 3]
    IN IF dims = <<0, 0>>
       THEN [F EXCEPT !.counter = id.next, !.pc = "raised", !.error = "KeyError preset"]
       ELSE [F EXCEPT !.counter = id.next,
                      !.placed_shapes = Append(@, ps),
                      !.shape_map[s.id] = Len(F.placed_shapes) + 1,
                      !.i = @ + 1]

\* body of "for i, s in enumerate(SHAPES)"
PlaceShape(F, shapes) ==
    LET s == shapes[F.i]
        id == nid(F.counter)
        dims == DIMS(s.preset)
        cx == dims[1]
        cy == dims[2]
        y == base_y + ((base_cy - cy) \div 2)
        ps == [shape_id |-> id.v, key |-> s.id, text |-> s.text, preset |-> s.preset,
               rect |-> Rect(xs(shapes, F.i - 1), y, cx, cy),
               font_size |-> estimate_font_size(s.text, cx, cy, 800, 1400),
               z_layer |-> 3]
    IN IF dims = <<0, 0>>
       THEN [F EXCEPT !.counter = id.next, !.pc = "raised", !.error = "KeyError preset"]
       ELSE [F EXCEPT !.counter = id.next,
                      !.placed_shapes = Append(@, ps),
                      !.shape_map[s.id] = Len(F.placed_shapes) + 1,
                      !.i = @ + 1]

\* mutant: the target reference is taken from the source shape
Connector_SourceTwice(cid, src, tgt, b) ==
    [conn_id |-> cid,
     src_shape_id |-> src.shape_id, src_idx |-> b.src_idx,
     tgt_shape_id |-> src.shape_id, tgt_idx |-> b.tgt_idx,
     rect |-> b.rect, flip_h |-> b.flip_h, flip_v |-> b.flip_v,
     z_layer |-> 2]

\* PlacedConnector(conn_id=cid, src_shape_id=src.shape_id, src_idx=si, ...)
Connector(cid, src, tgt, b) ==
    [conn_id |-> cid,
     src_shape_id |-> src.shape_id, src_idx |-> b.src_idx,
     tgt_shape_id |-> tgt.shape_id, tgt_idx |-> b.tgt_idx,
     rect |-> b.rect, flip_h |-> b.flip_h, flip_v |-> b.flip_v,
     z_layer |-> 2]

\* body of the first "for conn in CONNECTIONS"
PlaceConnector(F, connections) ==
    LET conn == connections[F.i] IN
    IF F.shape_map[conn.src] = 0 \/ F.shape_map[conn.tgt] = 0
    THEN [F EXCEPT !.pc = "raised", !.error = "KeyError shape_map"]
    ELSE LET src == F.placed_shapes[F.shape_map[conn.src]]
             tgt == F.placed_shapes[F.shape_map[conn.tgt]]
             id == nid(F.counter)
             b == compute_connector_bbox(src.rect, tgt.rect, "right_to_left")
             pcn == Connector(id.v, src, tgt, b)
         IN [F EXCEPT !.counter = id.next,
                      !.placed_connectors = Append(@, pcn),
                      !.i = @ + 1]

\* body of the second "for conn in CONNECTIONS", for a connection with a label
PlaceLabel(F, connections) ==
    LET conn == connections[F.i]
        src == F.placed_shapes[F.shape_map[conn.src]]
        id == nid(F.counter)
        lx == src.rect.x + src.rect.cx + (GAP \div 4)
        ly == base_y + (base_cy \div 2) - 342900
        pl == [label_id |-> id.v, text |-> conn.label,
               rect |-> Rect(lx, ly, 228600, 228600),
               font_size |-> 1000, z_layer |-> 4]
    IN [F EXCEPT !.counter = id.next,
                 !.placed_labels = Append(@, pl),
                 !.i = @ + 1]

\* one step of compute_layout, from one nid() call to the next
LayoutStep(F, shapes, connections) ==
    CASE F.pc = "enter" -> [F EXCEPT !.counter = IdStart, !.pc = "title"]
      [] F.pc = "title" ->
            LET id == nid(F.counter) IN
            [F EXCEPT !.title_id = id.v, !.counter = id.next, !.pc = "bg",
                      !.title_rect = Rect(457200, 228600, 8229600, 457200)]
      [] F.pc = "bg" ->
            LET id == nid(F.counter) IN
            Advance([F EXCEPT !.bg_id = id.v, !.counter = id.next,
                              !.pc = "shapes", !.i = 1], shapes, connections)
      [] F.pc = "shapes" -> Advance(PlaceShape(F, shapes), shapes, connections)
      [] F.pc = "connectors" -> Advance(PlaceConnector(F, connections), shapes, connections)
      [] F.pc = "labels" -> Advance(PlaceLabel(F, connections), shapes, connections)
      [] F.pc = "return" -> [F EXCEPT !.pc = "done"]
      [] OTHER -> F

LayoutEnded(F) == F.pc \in {"done", "raised"}

RECURSIVE RunLayout(_, _, _)
RunLayout(F, shapes, connections) ==
    IF LayoutEnded(F) THEN F
    ELSE RunLayout(LayoutStep(F, shapes, connections), shapes, connections)

\* compute_layout(), reading the module globals it is given
compute_layout(shapes, connections) == RunLayout(Frame0, shapes, connections)

(***************************************************************************)
(* PHASE 3 / QC2: validate                                                 *)
(***************************************************************************)
LayoutWarning(kind, key, key2, id) == [kind |-> kind, key |-> key, key2 |-> key2, id |-> id]
LayoutReturned(ws) == [raised |-> FALSE, error |-> [kind |-> "", id |-> 0], warnings |-> ws]
LayoutRaised(kind, id) ==
    [raised |-> TRUE, error |-> [kind |-> kind, id |-> id], warnings |-> <<>>]
LayoutNotRun == [raised |-> FALSE, error |-> [kind |-> "not run", id |-> 0], warnings |-> <<>>]

rects_overlap(a, b) ==
    ~(a.x + a.cx <= b.x \/ b.x + b.cx <= a.x \/ a.y + a.cy <= b.y \/ b.y + b.cy <= a.y)

\* None (idx outside 0..3) is the empty tuple
connection_point(rect, idx) ==
    CASE idx = 0 -> <<rect.x + (rect.cx \div 2), rect.y>>
      [] idx = 1 -> <<rect.x + rect.cx, rect.y + (rect.cy \div 2)>>
      [] idx = 2 -> <<rect.x + (rect.cx \div 2), rect.y + rect.cy>>
      [] idx = 3 -> <<rect.x, rect.y + (rect.cy \div 2)>>
      [] OTHER -> <<>>

\* shape_by_id = {ps.shape_id: ps for ps in placed_shapes}: the last shape wins
shape_by_id(placed_shapes, id) ==
    LET idxs == {i \in DOMAIN placed_shapes : placed_shapes[i].shape_id = id}
    IN placed_shapes[CHOOSE i \in idxs : \A j \in idxs : j <= i]

\* first loop: text overflow, font too small, zero font size, per shape
RECURSIVE TextChecks(_, _, _)
TextChecks(placed_shapes, k, ws) ==
    IF k > Len(placed_shapes) THEN ws
    ELSE LET ps == placed_shapes[k]
             w1 == IF ~text_fits(ps.text, ps.rect.cx, ps.font_size)
                   THEN Append(ws, LayoutWarning("Text overflow", ps.key, "", 0))
                   ELSE ws
             w2 == IF ps.font_size < 800
                   THEN Append(w1, LayoutWarning("Font too small", ps.key, "", 0))
                   ELSE w1
             w3 == IF strip(ps.text) # <<>> /\ ps.font_size = 0
                   THEN Append(w2, LayoutWarning("Zero font size", ps.key, "", 0))
                   ELSE w2
         IN TextChecks(placed_shapes, k + 1, w3)

\* for i, a in enumerate(placed_shapes): for b in placed_shapes[i+1:]
RECURSIVE OverlapChecks(_, _, _, _)
OverlapChecks(placed_shapes, i, j, ws) ==
    IF i > Len(placed_shapes) THEN ws
    ELSE IF j > Len(placed_shapes) THEN OverlapChecks(placed_shapes, i + 1, i + 2, ws)
    ELSE OverlapChecks(placed_shapes, i, j + 1,
             IF rects_overlap(placed_shapes[i].rect, placed_shapes[j].rect)
             THEN Append(ws, LayoutWarning("Shapes overlap", placed_shapes[i].key,
                                           placed_shapes[j].key, 0))
             ELSE ws)

RECURSIVE BoundsChecks(_, _, _)
BoundsChecks(placed_shapes, k, ws) ==
    IF k > Len(placed_shapes) THEN ws
    ELSE LET r == placed_shapes[k].rect IN
         BoundsChecks(placed_shapes, k + 1,
             IF r.x < 0 \/ r.y < 0 \/ r.x + r.cx > SLIDE_W \/ r.y + r.cy > SLIDE_H
             THEN Append(ws, LayoutWarning("Out of bounds", placed_shapes[k].key, "", 0))
             ELSE ws)

\* mutant: a connector is flagged only when both extents are degenerate
RECURSIVE DegenerateChecks_BothExtents(_, _, _)
DegenerateChecks_BothExtents(placed_connectors, k, ws) ==
    IF k > Len(placed_connectors) THEN ws
    ELSE LET pcn == placed_connectors[k] IN
         DegenerateChecks_BothExtents(placed_connectors, k + 1,
             IF pcn.rect.cx <= 0 /\ pcn.rect.cy <= 0
             THEN Append(ws, LayoutWarning("Degenerate connector", "", "", pcn.conn_id))
             ELSE ws)

RECURSIVE DegenerateChecks(_, _, _)
DegenerateChecks(placed_connectors, k, ws) ==
    IF k > Len(placed_connectors) THEN ws
    ELSE LET pcn == placed_connectors[k] IN
         DegenerateChecks(placed_connectors, k + 1,
             IF pcn.rect.cx <= 0 \/ pcn.rect.cy <= 0
             THEN Append(ws, LayoutWarning("Degenerate connector", "", "", pcn.conn_id))
             ELSE ws)

\* mutant: flip_v is not compared
EndpointWarnings_FlipVUnchecked(pcn, sp, tp) ==
    LET exp_x == Min(sp[1], tp[1])
        exp_y == Min(sp[2], tp[2])
        exp_cx == Max(Abs(tp[1] - sp[1]), 1)
        exp_cy == Max(Abs(tp[2] - sp[2]), 1)
        w1 == IF Abs(pcn.rect.x - exp_x) > 1 \/ Abs(pcn.rect.y - exp_y) > 1
                 \/ Abs(pcn.rect.cx - exp_cx) > 1 \/ Abs(pcn.rect.cy - exp_cy) > 1
              THEN <<LayoutWarning("bbox misaligned", "", "", pcn.conn_id)>>
              ELSE <<>>
        w2 == IF pcn.flip_h # (tp[1] < sp[1])
              THEN <<LayoutWarning("flip_h", "", "", pcn.conn_id)>>
              ELSE <<>>
    IN w1 \o w2

\* the warnings of one connector whose endpoints resolve: bbox, flip_h, flip_v
EndpointWarnings(pcn, sp, tp) ==
    LET exp_x == Min(sp[1], tp[1])
        exp_y == Min(sp[2], tp[2])
        exp_cx == Max(Abs(tp[1] - sp[1]), 1)
        exp_cy == Max(Abs(tp[2] - sp[2]), 1)
        w1 == IF Abs(pcn.rect.x - exp_x) > 1 \/ Abs(pcn.rect.y - exp_y) > 1
                 \/ Abs(pcn.rect.cx - exp_cx) > 1 \/ Abs(pcn.rect.cy - exp_cy) > 1
              THEN <<LayoutWarning("bbox misaligned", "", "", pcn.conn_id)>>
              ELSE <<>>
        w2 == IF pcn.flip_h # (tp[1] < sp[1])
              THEN <<LayoutWarning("flip_h", "", "", pcn.conn_id)>>
              ELSE <<>>
        w3 == IF pcn.flip_v # (tp[2] < sp[2])
              THEN <<LayoutWarning("flip_v", "", "", pcn.conn_id)>>
              ELSE <<>>
    IN w1 \o w2 \o w3

\* the second loop over placed_connectors: dangling references raise
RECURSIVE ConnectorChecks(_, _, _, _)
ConnectorChecks(placed_shapes, placed_connectors, k, ws) ==
    IF k > Len(placed_connectors) THEN LayoutReturned(ws)
    ELSE LET pcn == placed_connectors[k]
             shape_ids == {placed_shapes[i].shape_id : i \in DOMAIN placed_shapes}
         IN IF pcn.src_shape_id \notin shape_ids
            THEN LayoutRaised("bad source", pcn.conn_id)
            ELSE IF pcn.tgt_shape_id \notin shape_ids
            THEN LayoutRaised("bad target", pcn.conn_id)
            ELSE LET sp == connection_point(
                               shape_by_id(placed_shapes, pcn.src_shape_id).rect, pcn.src_idx)
                     tp == connection_point(
                               shape_by_id(placed_shapes, pcn.tgt_shape_id).rect, pcn.tgt_idx)
                 IN IF sp = <<>> \/ tp = <<>>
                    THEN LayoutRaised("TypeError", pcn.conn_id)
                    ELSE ConnectorChecks(placed_shapes, placed_connectors, k + 1,
                                         ws \o EndpointWarnings(pcn, sp, tp))

\* mutant: the label ids are left out of the duplicate check
all_ids_WithoutLabels(placed_shapes, placed_connectors, placed_labels) ==
    [i \in DOMAIN placed_shapes |-> placed_shapes[i].shape_id]
    \o [i \in DOMAIN placed_connectors |-> placed_connectors[i].conn_id]

\* all_ids = shape ids + connector ids + label ids
all_ids(placed_shapes, placed_connectors, placed_labels) ==
    [i \in DOMAIN placed_shapes |-> placed_shapes[i].shape_id]
    \o [i \in DOMAIN placed_connectors |-> placed_connectors[i].conn_id]
    \o [i \in DOMAIN placed_labels |-> placed_labels[i].label_id]

validate(placed_shapes, placed_connectors, placed_labels) ==
    LET w1 == TextChecks(placed_shapes, 1, <<>>)
        w2 == OverlapChecks(placed_shapes, 1, 2, w1)
        w3 == BoundsChecks(placed_shapes, 1, w2)
        w4 == DegenerateChecks(placed_connectors, 1, w3)
        r == ConnectorChecks(placed_shapes, placed_connectors, 1, w4)
        ids == all_ids(placed_shapes, placed_connectors, placed_labels)
    IN IF r.raised THEN r
       ELSE IF Len(ids) # Cardinality(SetOf(ids))
       THEN LayoutRaised("Duplicate IDs detected", 0)
       ELSE r

(***************************************************************************)
(* PHASE 4: RENDER, and QC3: validate_render                               *)
(***************************************************************************)
\* str(n) of a non-negative integer, as its decimal digits
RECURSIVE Digits(_)
Digits(n) == IF n < 10 THEN <<n>> ELSE Append(Digits(n \div 10), n % 10)

\* int(s) of a digit string
RECURSIVE ParseInt(_)
ParseInt(ds) ==
    IF ds = <<>> THEN 0
    ELSE 10 * ParseInt(SubSeq(ds, 1, Len(ds) - 1)) + ds[Len(ds)]

\* the characters of a string of the definition; the ids drawn are one character long
Chars(str) ==
    CASE str = "Background" -> <<"B", "a", "c", "k", "g", "r", "o", "u", "n", "d">>
      [] str = "Title" -> <<"T", "i", "t", "l", "e">>
      [] str = "TitleBar" -> <<"T", "i", "t", "l", "e", "B", "a", "r">>
      [] str = "Lane " -> <<"L", "a", "n", "e", " ">>
      [] str = "Conn " -> <<"C", "o", "n", "n", " ">>
      [] str = "Label " -> <<"L", "a", "b", "e", "l", " ">>
      [] OTHER -> <<str>>

\* one child of spTree: tag, the id and name attributes of cNvPr, and the id
\* attributes of stCxn and endCxn (none for p:sp)
Element(tag, id, name, cxn) == [tag |-> tag, id |-> Digits(id), name |-> name, cxn |-> cxn]

render_connector(pcn) ==
    Element("cxnSp", pcn.conn_id, Chars("Conn ") \o Digits(pcn.conn_id),
            <<Digits(pcn.src_shape_id), Digits(pcn.tgt_shape_id)>>)

render_shape(ps) == Element("sp", ps.shape_id, Chars(ps.key), <<>>)

render_label(pl) == Element("sp", pl.label_id, Chars("Label ") \o Digits(pl.label_id), <<>>)

\* mutant: the labels are not emitted
render_all_WithoutLabels(bg_id, title_id, placed_shapes, placed_connectors, placed_labels) ==
    <<Element("sp", bg_id, Chars("Background"), <<>>)>>
    \o <<Element("sp", title_id, Chars("Title"), <<>>)>>
    \o [i \in DOMAIN placed_connectors |-> render_connector(placed_connectors[i])]
    \o [i \in DOMAIN placed_shapes |-> render_shape(placed_shapes[i])]

\* the content children of spTree after render_all, in document order
render_all(bg_id, title_id, placed_shapes, placed_connectors, placed_labels) ==
    <<Element("sp", bg_id, Chars("Background"), <<>>)>>
    \o <<Element("sp", title_id, Chars("Title"), <<>>)>>
    \o [i \in DOMAIN placed_connectors |-> render_connector(placed_connectors[i])]
    \o [i \in DOMAIN placed_shapes |-> render_shape(placed_shapes[i])]
    \o [i \in DOMAIN placed_labels |-> render_label(placed_labels[i])]

RenderWarning(kind, id) == [kind |-> kind, id |-> id]
RenderReturned(ws, actual) ==
    [raised |-> FALSE, error |-> "", warnings |-> ws, actual |-> actual]
RenderRaised(kind) == [raised |-> TRUE, error |-> kind, warnings |-> <<>>, actual |-> 0]
RenderNotRun == [raised |-> FALSE, error |-> "not run", warnings |-> <<>>, actual |-> 0]

startswith(name, prefix) ==
    Len(name) >= Len(prefix) /\ SubSeq(name, 1, Len(prefix)) = prefix

\* mutant: lanes are taken for shapes
IsShapeTier_LanesCounted(elem) ==
    /\ elem.tag = "sp"
    /\ elem.name \notin {Chars("Background"), Chars("Title"), Chars("TitleBar")}

\* a p:sp that the z-order heuristic takes for a shape
IsShapeTier(elem) ==
    /\ elem.tag = "sp"
    /\ elem.name \notin {Chars("Background"), Chars("Title"), Chars("TitleBar")}
    /\ ~startswith(elem.name, Chars("Lane "))

\* orphaned stCxn/endCxn references, element by element
RECURSIVE OrphanChecks(_, _, _, _)
OrphanChecks(children, id_set, k, ws) ==
    IF k > Len(children) THEN ws
    ELSE LET refs == children[k].cxn
             orphans == SelectSeq(refs, LAMBDA ref : ParseInt(ref) \notin id_set)
         IN OrphanChecks(children, id_set, k + 1,
                ws \o [i \in DOMAIN orphans |->
                          RenderWarning("Orphaned reference", ParseInt(orphans[i]))])

validate_render(children, expected_count) ==
    LET actual == Len(children)
        w1 == IF actual # expected_count
              THEN <<RenderWarning("Element count mismatch", actual)>>
              ELSE <<>>
        ids == [i \in DOMAIN children |-> ParseInt(children[i].id)]
        conn_idxs == {i \in DOMAIN children : children[i].tag = "cxnSp"}
        shape_idxs == {i \in DOMAIN children : IsShapeTier(children[i])}
        \* 0-based indexes, as in the code
        last_connector_idx ==
            IF conn_idxs = {} THEN -1
            ELSE (CHOOSE i \in conn_idxs : \A j \in conn_idxs : j <= i) - 1
        first_shape_idx ==
            IF shape_idxs = {} THEN Len(children)
            ELSE (CHOOSE i \in shape_idxs : \A j \in shape_idxs : i <= j) - 1
        w2 == IF last_connector_idx >= 0 /\ first_shape_idx < Len(children)
                 /\ first_shape_idx < last_connector_idx
              THEN Append(w1, RenderWarning("Z-order issue", 0))
              ELSE w1
    IN IF Len(ids) # Cardinality(SetOf(ids))
       THEN RenderRaised("Duplicate IDs in rendered spTree")
       ELSE RenderReturned(OrphanChecks(children, SetOf(ids), 1, w2), actual)

(***************************************************************************)
(* MAIN: the __main__ script, one run over one definition                  *)
(***************************************************************************)
MainIdle ==
    /\ pc = "qc1"
    /\ qc1 = NotRun
    /\ layout = Frame0
    /\ qc2 = LayoutNotRun
    /\ tree = <<>>
    /\ qc3 = RenderNotRun
    /\ saved = FALSE

Runs == {1, 2}

TwoIdle ==
    /\ frame = [r \in Runs |-> Frame0]
    /\ cells = [r \in Runs |-> 0]

NoLayout == [shapes |-> <<>>, connectors |-> <<>>, labels |-> <<>>]

ValIdle ==
    /\ placed = NoLayout
    /\ vres = LayoutNotRun

NoCall == <<>>

CallIdle ==
    /\ call = NoCall
    /\ result = NoCall

Init ==
    /\ SHAPES \in SeqsUpTo(FlowShapeSpecs, MaxShapes)
    /\ CONNECTIONS \in SeqsUpTo(FlowConnSpecs, MaxConns)
    /\ MainIdle
    /\ TwoIdle
    /\ ValIdle
    /\ gen = "flowchart"
    /\ CallIdle

QC1 ==
    /\ pc = "qc1"
    /\ qc1' = validate_definition(SHAPES, CONNECTIONS)
    /\ pc' = IF qc1'.raised THEN "aborted" ELSE "compute"
    /\ UNCHANGED <<layout, qc2, tree, qc3, saved>>
    /\ UNCHANGED <<defVars, twoVars, valVars, genVars, callVars>>

Compute ==
    /\ pc = "compute"
    /\ layout' = compute_layout(SHAPES, CONNECTIONS)
    /\ pc' = IF layout'.pc = "raised" THEN "aborted" ELSE "qc2"
    /\ UNCHANGED <<qc1, qc2, tree, qc3, saved>>
    /\ UNCHANGED <<defVars, twoVars, valVars, genVars, callVars>>

QC2 ==
    /\ pc = "qc2"
    /\ qc2' = validate(layout.placed_shapes, layout.placed_connectors, layout.placed_labels)
    /\ pc' = IF qc2'.raised THEN "aborted" ELSE "render"
    /\ UNCHANGED <<qc1, layout, tree, qc3, saved>>
    /\ UNCHANGED <<defVars, twoVars, valVars, genVars, callVars>>

Render ==
    /\ pc = "render"
    /\ tree' = render_all(layout.bg_id, layout.title_id, layout.placed_shapes,
                          layout.placed_connectors, layout.placed_labels)
    /\ pc' = "qc3"
    /\ UNCHANGED <<qc1, layout, qc2, qc3, saved>>
    /\ UNCHANGED <<defVars, twoVars, valVars, genVars, callVars>>

\* expected = 1 + 1 + len(connectors) + len(shapes) + len(labels)
QC3 ==
    /\ pc = "qc3"
    /\ qc3' = validate_render(tree, 1 + 1 + Len(layout.placed_connectors)
                                    + Len(layout.placed_shapes) + Len(layout.placed_labels))
    /\ pc' = IF qc3'.raised THEN "aborted" ELSE "save"
    /\ UNCHANGED <<qc1, layout, qc2, tree, saved>>
    /\ UNCHANGED <<defVars, twoVars, valVars, genVars, callVars>>

Save ==
    /\ pc = "save"
    /\ saved' = TRUE
    /\ pc' = "done"
    /\ UNCHANGED <<qc1, layout, qc2, tree, qc3>>
    /\ UNCHANGED <<defVars, twoVars, valVars, genVars, callVars>>

Next == QC1 \/ Compute \/ QC2 \/ Render \/ QC3 \/ Save

Spec == Init /\ [][Next]_vars

(***************************************************************************)
(* validate_definition applied to every definition of a bounded set        *)
(***************************************************************************)
InitDef ==
    /\ SHAPES \in SeqsUpTo(DefShapeSpecs, MaxShapes)
    /\ CONNECTIONS \in SeqsUpTo(DefConnSpecs, MaxConns)
    /\ MainIdle
    /\ TwoIdle
    /\ ValIdle
    /\ gen = "flowchart"
    /\ CallIdle

SpecDef == InitDef /\ [][QC1]_vars

(***************************************************************************)
(* Two invocations of compute_layout over the same module globals, their    *)
(* steps interleaved in every order                                        *)
(***************************************************************************)
\* mutant: one module-level cell serves every invocation
CounterCell_Shared(r) == 1

\* _id = [2] is created by the invocation: each invocation has a cell of its own
CounterCell(r) == r

InitTwo ==
    /\ SHAPES \in SeqsUpTo(TwoShapeSpecs, MaxShapes)
    /\ CONNECTIONS \in SeqsUpTo(TwoConnSpecs, MaxConns)
    /\ MainIdle
    /\ TwoIdle
    /\ ValIdle
    /\ gen = "flowchart"
    /\ CallIdle

\* invocation r runs up to its next nid() call (or its return)
LayoutStepOf(r) ==
    /\ ~LayoutEnded(frame[r])
    /\ LET F == [frame[r] EXCEPT !.counter = cells[CounterCell(r)]]
           G == LayoutStep(F, SHAPES, CONNECTIONS)
       IN /\ frame' = [frame EXCEPT ![r] = G]
          /\ cells' = [cells EXCEPT ![CounterCell(r)] = G.counter]
    /\ UNCHANGED <<defVars, mainVars, valVars, genVars, callVars>>

NextTwo == \E r \in Runs : LayoutStepOf(r)

SpecTwo == InitTwo /\ [][NextTwo]_vars

(***************************************************************************)
(* validate applied to every placed layout of a bounded set, as a caller    *)
(* other than compute_layout may hand it over                              *)
(***************************************************************************)
RectA == Rect(1000000, 2000000, 1371600, 685800)
\* overlaps RectA and leaves the slide on the left
RectB == Rect(-100, 2000000, 1371600, 685800)

PlacedShapeInputs ==
    [shape_id : {4, 5}, key : {"a"}, text : {<<"G", "O">>}, preset : {"flowChartProcess"},
     rect : {RectA, RectB}, font_size : {0}, z_layer : {3}]

\* connectors between shapes 4 and 5 or from/to the absent shape 9, with an
\* anchor index inside or outside 0..3, and a rect and flips that need not fit
PlacedConnectorInputs ==
    {[conn_id |-> c, src_shape_id |-> e[1], src_idx |-> si, tgt_shape_id |-> e[2],
      tgt_idx |-> 3, rect |-> Rect(0, 0, 0, 0), flip_h |-> FALSE, flip_v |-> FALSE,
      z_layer |-> 2] :
        c \in {5, 6}, e \in {<<4, 5>>, <<9, 5>>, <<4, 9>>}, si \in {1, 4}}

PlacedLabelInputs ==
    [label_id : {5, 7}, text : {<<"Y", "E", "S">>}, rect : {Rect(0, 0, 228600, 228600)},
     font_size : {1000}, z_layer : {4}]

InitValidate ==
    /\ SHAPES = <<>>
    /\ CONNECTIONS = <<>>
    /\ MainIdle
    /\ TwoIdle
    /\ placed \in [shapes : SeqsUpTo(PlacedShapeInputs, MaxShapes),
                   connectors : SeqsUpTo(PlacedConnectorInputs, MaxConns),
                   labels : SeqsUpTo(PlacedLabelInputs, MaxLabels)]
    /\ vres = LayoutNotRun
    /\ gen = "flowchart"
    /\ CallIdle

Validate ==
    /\ vres = LayoutNotRun
    /\ vres' = validate(placed.shapes, placed.connectors, placed.labels)
    /\ UNCHANGED <<placed, defVars, mainVars, twoVars, genVars, callVars>>

SpecValidate == InitValidate /\ [][Validate]_vars

(***************************************************************************)
(* Routed connectors: build_routed_connector_xml                           *)
(* (architecture_diagram.py, branching_flowchart.py,                       *)
(*  m365_genai_architecture.py: the same code but for the default radius)  *)
(***************************************************************************)
RECURSIVE MinOf(_)
MinOf(seq) == IF Len(seq) = 1 THEN seq[1] ELSE Min(seq[1], MinOf(Tail(seq)))

RECURSIVE MaxOf(_)
MaxOf(seq) == IF Len(seq) = 1 THEN seq[1] ELSE Max(seq[1], MaxOf(Tail(seq)))

\* direction(a, b): the first test that applies; 'U' is what is left
direction(a, b) ==
    LET dx == b[1] - a[1]
        dy == b[2] - a[2]
    IN IF dx > 0 THEN "R"
       ELSE IF dx < 0 THEN "L"
       ELSE IF dy > 0 THEN "D"
       ELSE "U"

\* mutant: the turn from Up to Left sweeps the other way
ARC_SweepReversed(prev_dir, next_dir) ==
    CASE prev_dir = "R" /\ next_dir = "D" -> <<16200000, 5400000>>
      [] prev_dir = "R" /\ next_dir = "U" -> <<5400000, -5400000>>
      [] prev_dir = "L" /\ next_dir = "D" -> <<16200000, -5400000>>
      [] prev_dir = "L" /\ next_dir = "U" -> <<5400000, 5400000>>
      [] prev_dir = "D" /\ next_dir = "R" -> <<10800000, -5400000>>
      [] prev_dir = "D" /\ next_dir = "L" -> <<0, 5400000>>
      [] prev_dir = "U" /\ next_dir = "R" -> <<10800000, 5400000>>
      [] prev_dir = "U" /\ next_dir = "L" -> <<0, 5400000>>
      [] OTHER -> <<>>

\* the ARC table: (stAng, swAng) per (incoming, outgoing) direction; <<>> stands
\* for a missing key
ARC(prev_dir, next_dir) ==
    CASE prev_dir = "R" /\ next_dir = "D" -> <<16200000, 5400000>>
      [] prev_dir = "R" /\ next_dir = "U" -> <<5400000, -5400000>>
      [] prev_dir = "L" /\ next_dir = "D" -> <<16200000, -5400000>>
      [] prev_dir = "L" /\ next_dir = "U" -> <<5400000, 5400000>>
      [] prev_dir = "D" /\ next_dir = "R" -> <<10800000, -5400000>>
      [] prev_dir = "D" /\ next_dir = "L" -> <<0, 5400000>>
      [] prev_dir = "U" /\ next_dir = "R" -> <<10800000, 5400000>>
      [] prev_dir = "U" /\ next_dir = "L" -> <<0, -5400000>>
      [] OTHER -> <<>>

\* mutant: the outgoing segment does not limit the radius
CornerRadius_BeforeOnly(pts, i, radius) ==
    LET seg_before == Abs(pts[i][1] - pts[i - 1][1]) + Abs(pts[i][2] - pts[i - 1][2])
    IN Min(radius, seg_before \div 2)

\* mutant: the radius is clamped to the segments, not to their halves
CornerRadius_WholeSegments(pts, i, radius) ==
    LET seg_before == Abs(pts[i][1] - pts[i - 1][1]) + Abs(pts[i][2] - pts[i - 1][2])
        seg_after == Abs(pts[i + 1][1] - pts[i][1]) + Abs(pts[i + 1][2] - pts[i][2])
    IN Min(radius, Min(seg_before, seg_after))

\* r = min(radius, seg_before // 2, seg_after // 2)
CornerRadius(pts, i, radius) ==
    LET seg_before == Abs(pts[i][1] - pts[i - 1][1]) + Abs(pts[i][2] - pts[i - 1][2])
        seg_after == Abs(pts[i + 1][1] - pts[i][1]) + Abs(pts[i + 1][2] - pts[i][2])
    IN Min(radius, Min(seg_before \div 2, seg_after \div 2))

RouteRaised(kind, args) ==
    [raised |-> TRUE, error |-> [kind |-> kind, args |-> args], path |-> <<>>,
     off |-> <<0, 0>>, ext |-> <<0, 0>>, sid |-> 0, name |-> ""]

\* the path commands: the segment direction is kept with each command
MoveTo(p) == [cmd |-> "moveTo", pt |-> p, dir |-> "", r |-> 0, ang |-> <<>>]
LnTo(p, d) == [cmd |-> "lnTo", pt |-> p, dir |-> d, r |-> 0, ang |-> <<>>]
ArcTo(r, d, ang) == [cmd |-> "arcTo", pt |-> <<>>, dir |-> d, r |-> r, ang |-> ang]

\* the loop "for i in range(1, len(pts))", from point i (1-based) on; the
\* result is the command list, or <<"KeyError", prev_dir, next_dir>>
RECURSIVE PathFrom(_, _, _, _)
PathFrom(pts, i, radius, path_cmds) ==
    IF i > Len(pts) THEN [raised |-> FALSE, cmds |-> path_cmds, key |-> <<>>]
    ELSE IF i < Len(pts)
    THEN LET prev_dir == direction(pts[i - 1], pts[i])
             next_dir == direction(pts[i], pts[i + 1])
             r == CornerRadius(pts, i, radius)
             bx == CASE prev_dir = "R" -> pts[i][1] - r
                     [] prev_dir = "L" -> pts[i][1] + r
                     [] OTHER -> pts[i][1]
             by == CASE prev_dir = "D" -> pts[i][2] - r
                     [] prev_dir = "U" -> pts[i][2] + r
                     [] OTHER -> pts[i][2]
         IN IF ARC(prev_dir, next_dir) = <<>>
            THEN [raised |-> TRUE, cmds |-> <<>>, key |-> <<prev_dir, next_dir>>]
            ELSE PathFrom(pts, i + 1, radius,
                          path_cmds \o <<LnTo(<<bx, by>>, prev_dir),
                                         ArcTo(r, next_dir, ARC(prev_dir, next_dir))>>)
    ELSE PathFrom(pts, i + 1, radius,
                  Append(path_cmds, LnTo(pts[i], direction(pts[i - 1], pts[i]))))

\* build_routed_connector_xml(waypoints, sid, name, ..., radius): the element
\* it returns (cNvPr id and name, xfrm offset and extent, path), or the
\* exception it raises
build_routed_connector_xml(waypoints, sid, name, radius) ==
    IF waypoints = <<>>
    THEN RouteRaised("ValueError", <<"min() arg is an empty sequence">>)
    ELSE LET xs_ == [k \in DOMAIN waypoints |-> waypoints[k][1]]
             ys_ == [k \in DOMAIN waypoints |-> waypoints[k][2]]
             min_x == MinOf(xs_)
             min_y == MinOf(ys_)
             bbox_w == Max(MaxOf(xs_) - min_x, 1)
             bbox_h == Max(MaxOf(ys_) - min_y, 1)
             pts == [k \in DOMAIN waypoints |->
                        <<waypoints[k][1] - min_x, waypoints[k][2] - min_y>>]
             p == PathFrom(pts, 2, radius, <<MoveTo(pts[1])>>)
         IN IF p.raised
            THEN RouteRaised("KeyError", p.key)
            ELSE [raised |-> FALSE, error |-> [kind |-> "", args |-> <<>>],
                  path |-> p.cmds, off |-> <<min_x, min_y>>,
                  ext |-> <<bbox_w, bbox_h>>, sid |-> sid, name |-> name]

(***************************************************************************)
(* org_chart.py: PHASE 2 compute_layout and PHASE 3 validate               *)
(***************************************************************************)
SH == 571500
V_GAP == 685800
MARGIN_TOP == 685800

\* LEVEL_SW.get(lvl_key, 1371600)
LEVEL_SW(lvl_key) ==
    CASE lvl_key = "0" -> 1600200
      [] lvl_key = "1" -> 1600200
      [] lvl_key = "2" -> 1280160
      [] OTHER -> 1371600

\* LEVEL_GAP.get(lvl_key, 304800)
LEVEL_GAP(lvl_key) ==
    CASE lvl_key = "0" -> 304800
      [] lvl_key = "1" -> 304800
      [] lvl_key = "2" -> 182880
      [] OTHER -> 304800

\* the keys of LEVEL_COLORS
LEVEL_COLORS == {"0", "1", "2"}

\* mutant: a gap is counted after the last item too
center_row_GapAfterLast(n, sw, gap) ==
    LET total == n * (sw + gap)
        left == (SLIDE_W - total) \div 2
    IN [i \in 1..n |-> left + (i - 1) * (sw + gap)]

\* mutant: the free width is not halved
center_row_NotHalved(n, sw, gap) ==
    LET total == n * sw + (n - 1) * gap
        left == SLIDE_W - total
    IN [i \in 1..n |-> left + (i - 1) * (sw + gap)]

\* center_row(n, sw, gap): the left edges of the n items, as a list
center_row(n, sw, gap) ==
    LET total == n * sw + (n - 1) * gap
        left == (SLIDE_W - total) \div 2
    IN [i \in 1..n |-> left + (i - 1) * (sw + gap)]

\* org_chart.compute_connector_bbox: parent bottom centre to child top centre
org_compute_connector_bbox(src_rect, tgt_rect) ==
    LET sp_x == src_rect.x + (src_rect.cx \div 2)
        sp_y == src_rect.y + src_rect.cy
        tp_x == tgt_rect.x + (tgt_rect.cx \div 2)
        tp_y == tgt_rect.y
    IN [rect |-> Rect(Min(sp_x, tp_x), Min(sp_y, tp_y),
                      Max(Abs(tp_x - sp_x), 1), Max(Abs(tp_y - sp_y), 1)),
        flip_h |-> tp_x < sp_x,
        flip_v |-> tp_y < sp_y]

\* the group keys the model draws, in the order sorted() gives them
LevelOrder == <<"0", "1", "2", "9">>

\* sorted(levels.keys())
sorted_levels(shapes) ==
    SelectSeq(LevelOrder, LAMBDA k : \E i \in DOMAIN shapes : shapes[i].group = k)

\* levels[lvl_key]: the shapes of a group, in definition order
levels(shapes, lvl_key) == SelectSeq(shapes, LAMBDA sh : sh.group = lvl_key)

\* max(s["name"], s["title"], key=len): the first of the longest
longest(sh) == IF Len(sh.title) > Len(sh.name) THEN sh.title ELSE sh.name

\* body of "for i, s in enumerate(shapes)" of level lvl_idx (0-based), from shape i on
RECURSIVE OrgPlaceRow(_, _, _, _, _)
OrgPlaceRow(F, row, lvl_key, lvl_idx, i) ==
    IF i > Len(row) THEN F
    ELSE LET sh == row[i]
             sw == LEVEL_SW(lvl_key)
             row_xs == center_row(Len(row), sw, LEVEL_GAP(lvl_key))
             y == MARGIN_TOP + lvl_idx * (SH + V_GAP)
             id == nid(F.counter)
             font_size == estimate_font_size(longest(sh), sw, SH, 800, 1100)
             ps == [shape_id |-> id.v, key |-> sh.id,
                    text |-> sh.name, text_line2 |-> sh.title, preset |-> "roundRect",
                    rect |-> Rect(row_xs[i], y, sw, SH),
                    font_size |-> font_size, font_size2 |-> Max(font_size - 200, 800),
                    z_layer |-> 3]
         IN OrgPlaceRow([F EXCEPT !.counter = id.next,
                                  !.placed_shapes = Append(@, ps),
                                  !.shape_map[sh.id] = Len(F.placed_shapes) + 1],
                        row, lvl_key, lvl_idx, i + 1)

\* "for lvl_idx, lvl_key in enumerate(sorted_levels)", from level k (1-based) on
RECURSIVE OrgPlaceLevels(_, _, _)
OrgPlaceLevels(F, shapes, k) ==
    IF k > Len(sorted_levels(shapes)) THEN F
    ELSE LET lvl_key == sorted_levels(shapes)[k] IN
         IF lvl_key \notin LEVEL_COLORS
         THEN [F EXCEPT !.pc = "raised", !.error = "KeyError LEVEL_COLORS"]
         ELSE OrgPlaceLevels(OrgPlaceRow(F, levels(shapes, lvl_key), lvl_key, k - 1, 1),
                             shapes, k + 1)

\* "for conn in CONNECTIONS", from connection k on
RECURSIVE OrgPlaceConnectors(_, _, _)
OrgPlaceConnectors(F, connections, k) ==
    IF F.pc = "raised" \/ k > Len(connections) THEN F
    ELSE LET conn == connections[k] IN
         IF F.shape_map[conn.src] = 0 \/ F.shape_map[conn.tgt] = 0
         THEN [F EXCEPT !.pc = "raised", !.error = "KeyError shape_map"]
         ELSE LET src == F.placed_shapes[F.shape_map[conn.src]]
                  tgt == F.placed_shapes[F.shape_map[conn.tgt]]
                  id == nid(F.counter)
                  b == org_compute_connector_bbox(src.rect, tgt.rect)
                  pcn == [conn_id |-> id.v,
                          src_shape_id |-> src.shape_id, src_idx |-> 2,
                          tgt_shape_id |-> tgt.shape_id, tgt_idx |-> 0,
                          rect |-> b.rect, flip_h |-> b.flip_h, flip_v |-> b.flip_v,
                          z_layer |-> 2]
              IN OrgPlaceConnectors([F EXCEPT !.counter = id.next,
                                              !.placed_connectors = Append(@, pcn)],
                                    connections, k + 1)

\* org_chart.compute_layout(), reading the module globals it is given
org_compute_layout(shapes, connections) ==
    LET bg == nid(IdStart)
        title == nid(bg.next)
        F == [Frame0 EXCEPT !.counter = title.next, !.bg_id = bg.v, !.title_id = title.v,
                            !.title_rect = Rect(457200, 152400, 8229600, 400050)]
        G == OrgPlaceConnectors(OrgPlaceLevels(F, shapes, 1), connections, 1)
    IN IF G.pc = "raised" THEN G ELSE [G EXCEPT !.pc = "done"]

\* first loop of org_chart.validate: both text lines
RECURSIVE OrgTextChecks(_, _, _)
OrgTextChecks(placed_shapes, k, ws) ==
    IF k > Len(placed_shapes) THEN ws
    ELSE LET ps == placed_shapes[k]
             w1 == IF ~text_fits(ps.text, ps.rect.cx, ps.font_size)
                   THEN Append(ws, LayoutWarning("Text overflow", ps.key, "", 0))
                   ELSE ws
             w2 == IF ps.text_line2 # <<>>
                      /\ ~text_fits(ps.text_line2, ps.rect.cx, ps.font_size2)
                   THEN Append(w1, LayoutWarning("Text overflow", ps.key, "", 0))
                   ELSE w1
             w3 == IF ps.font_size < 800
                   THEN Append(w2, LayoutWarning("Font too small", ps.key, "", 0))
                   ELSE w2
             w4 == IF strip(ps.text) # <<>> /\ ps.font_size = 0
                   THEN Append(w3, LayoutWarning("Zero font size", ps.key, "", 0))
                   ELSE w3
         IN OrgTextChecks(placed_shapes, k + 1, w4)

\* org_chart.validate(placed_shapes, placed_connectors): the same checks as the
\* flowchart's, with the second text line and without labels
org_validate(placed_shapes, placed_connectors) ==
    LET w1 == OrgTextChecks(placed_shapes, 1, <<>>)
        w2 == OverlapChecks(placed_shapes, 1, 2, w1)
        w3 == BoundsChecks(placed_shapes, 1, w2)
        w4 == DegenerateChecks(placed_connectors, 1, w3)
        r == ConnectorChecks(placed_shapes, placed_connectors, 1, w4)
        ids == all_ids(placed_shapes, placed_connectors, <<>>)
    IN IF r.raised THEN r
       ELSE IF Len(ids) # Cardinality(SetOf(ids))
       THEN LayoutRaised("Duplicate IDs detected", 0)
       ELSE r

(***************************************************************************)
(* architecture_diagram.py: main()                                         *)
(***************************************************************************)
LANES == <<"PRESENTATION LAYER", "BUSINESS LOGIC LAYER", "DATA LAYER">>
TITLE_H == 500000
TITLE_GAP == 91440
BOTTOM_MARGIN == 91440
COMP_W == 1371600
COMP_H == 800100
COL_GAP == 304800

\* lane_h = usable_h // len(LANES)
lane_h == (SLIDE_H - TITLE_H - TITLE_GAP - BOTTOM_MARGIN) \div Len(LANES)

\* lane_y_positions[i], i 0-based
lane_y_positions(i) == TITLE_H + TITLE_GAP + i * lane_h

\* an element appended to spTree: what it is, its cNvPr id and name
Emitted(kind, id, name) == [kind |-> kind, id |-> id, name |-> name]

\* the state of main(): the counter sid, the elements appended so far, the
\* exception that ended it
Main0 == [pc |-> "run", sid |-> IdStart, emitted |-> <<>>, error |-> ""]

\* mutant: the element is appended and sid is not incremented
Emit_IdReused(M, kind, name) ==
    [M EXCEPT !.emitted = Append(@, Emitted(kind, M.sid, name))]

\* spTree.append(...); sid += 1
Emit(M, kind, name) ==
    [M EXCEPT !.emitted = Append(@, Emitted(kind, M.sid, name)), !.sid = @ + 1]

\* "for i, (label, fill, border) in enumerate(LANES)", from lane k on
RECURSIVE EmitLanes(_, _)
EmitLanes(M, k) ==
    IF k > Len(LANES) THEN M ELSE EmitLanes(Emit(M, "lane", LANES[k]), k + 1)

\* lane_comps.keys(): the lane indices in the order of their first component
RECURSIVE LaneOrder(_, _)
LaneOrder(components, k) ==
    IF k > Len(components) THEN <<>>
    ELSE IF \E j \in 1..(k - 1) : components[j].lane_idx = components[k].lane_idx
    THEN LaneOrder(components, k + 1)
    ELSE <<components[k].lane_idx>> \o LaneOrder(components, k + 1)

\* lane_comps[lane_idx]
lane_comps(components, lane_idx) ==
    SelectSeq(components, LAMBDA c : c.lane_idx = lane_idx)

\* the assignments positions[cid] = (xs[i], comp_y, COMP_W, COMP_H) of one lane
LanePositions(comps, lane_idx) ==
    LET row_xs == center_row(Len(comps), COMP_W, COL_GAP)
        comp_y == lane_y_positions(lane_idx) + ((lane_h - COMP_H) \div 2)
    IN [i \in DOMAIN comps |->
            [cid |-> comps[i].id, rect |-> Rect(row_xs[i], comp_y, COMP_W, COMP_H)]]

\* all assignments to positions, in execution order; a lane index outside
\* LANES raises IndexError
RECURSIVE PositionWrites(_, _, _)
PositionWrites(components, order, k) ==
    IF k > Len(order) THEN <<>>
    ELSE LanePositions(lane_comps(components, order[k]), order[k])
         \o PositionWrites(components, order, k + 1)

\* positions.get(cid): the last assignment wins; Rect(0, 0, 0, 0) with cx = 0
\* stands for a missing key
positions(writes, cid) ==
    LET idxs == {i \in DOMAIN writes : writes[i].cid = cid}
    IN IF idxs = {} THEN Rect(0, 0, 0, 0)
       ELSE writes[CHOOSE i \in idxs : \A j \in idxs : j <= i].rect

\* the waypoints of an arrow: source bottom centre to target top centre
ArrowWaypoints(s_, t_) ==
    LET x1 == s_.x + (s_.cx \div 2)
        y1 == s_.y + s_.cy
        x2 == t_.x + (t_.cx \div 2)
        y2 == t_.y
        mid_y == y1 + ((y2 - y1) \div 2)
    IN IF x1 = x2 THEN <<<<x1, y1>>, <<x2, y2>>>>
       ELSE <<<<x1, y1>>, <<x1, mid_y>>, <<x2, mid_y>>, <<x2, y2>>>>

\* "for src_id, tgt_id, color in ARROWS", from arrow k on
RECURSIVE EmitArrows(_, _, _, _)
EmitArrows(M, writes, arrows, k) ==
    IF k > Len(arrows) THEN M
    ELSE LET s_ == positions(writes, arrows[k].src)
             t_ == positions(writes, arrows[k].tgt)
         IN IF s_.cx = 0 \/ t_.cx = 0
            THEN [M EXCEPT !.pc = "raised", !.error = "KeyError positions"]
            ELSE LET x == build_routed_connector_xml(ArrowWaypoints(s_, t_), M.sid,
                                                     "Arrow", 120000)
                 IN IF x.raised
                    THEN [M EXCEPT !.pc = "raised", !.error = x.error.kind]
                    ELSE EmitArrows(Emit(M, "connector", "Arrow"), writes, arrows, k + 1)

\* "for cid, text, preset, lane_idx, style in COMPONENTS", from component k on
RECURSIVE EmitComponents(_, _, _)
EmitComponents(M, components, k) ==
    IF M.pc = "raised" \/ k > Len(components) THEN M
    ELSE EmitComponents(Emit(M, "shape", components[k].id), components, k + 1)

\* make_legend_xml: the box, a swatch and a label per colour entry, a line and
\* a label per line entry
RECURSIVE EmitLegend(_, _)
EmitLegend(M, n) ==
    IF M.pc = "raised" \/ n = 0 THEN M ELSE EmitLegend(Emit(M, "legend", "Legend"), n - 1)

LegendElements == 1 + 2 * 4 + 2 * 2

\* main(): background, lanes, title bar, arrows, components, legend, save
arch_main(components, arrows) ==
    LET M1 == Emit(EmitLanes(Emit(Main0, "background", "Background"), 1),
                   "title", "TitleBar")
        order == LaneOrder(components, 1)
    IN IF \E k \in DOMAIN order : order[k] \notin 0..(Len(LANES) - 1)
       THEN [M1 EXCEPT !.pc = "raised", !.error = "IndexError lane_y_positions"]
       ELSE LET writes == PositionWrites(components, order, 1)
                M2 == EmitLegend(EmitComponents(EmitArrows(M1, writes, arrows, 1),
                                                components, 1), LegendElements)
            IN IF M2.pc = "raised" THEN M2 ELSE [M2 EXCEPT !.pc = "saved"]

(***************************************************************************)
(* The generator scripts on longer definitions: flowchart.py and           *)
(* org_chart.py up to the layout validator, architecture_diagram.py whole  *)
(***************************************************************************)
\* org_chart.validate_definition: the shape loop tests the "name" field; the
\* shapes of the model carry no "preset" key
RECURSIVE OrgShapeChecks(_, _, _)
OrgShapeChecks(shapes, k, ws) ==
    IF k > Len(shapes) THEN ws
    ELSE OrgShapeChecks(shapes, k + 1,
             IF strip(shapes[k].name) = <<>>
             THEN Append(ws, DefWarning("Empty name", shapes[k].id, ""))
             ELSE ws)

org_validate_definition(shapes, connections) ==
    LET ids == ShapeIds(shapes) IN
    IF Len(ids) # Cardinality(SetOf(ids))
    THEN Raised("Duplicate shape IDs", SetOf(Dupes(ids)))
    ELSE LET r == ConnectionChecks(connections, SetOf(ids), 1, <<>>) IN
         IF r.raised THEN r ELSE Returned(OrgShapeChecks(shapes, 1, r.warnings))

\* a label of 331 characters: too wide for a box of 1371600 at every size, and
\* fitting a box of 1600200 at 900
LongText == [i \in 1..331 |-> "x"]
ShortText == <<"G", "O">>

\* per flowchart shape: preset and text
FlowRowSpecs ==
    {[text |-> ShortText, preset |-> "flowChartProcess"],
     [text |-> ShortText, preset |-> "flowChartDecision"],
     [text |-> LongText, preset |-> "flowChartProcess"]}

\* per org-chart shape: level, and the second text line; level "9" has no colour
OrgRowSpecs ==
    {[group |-> "0", title |-> ShortText], [group |-> "1", title |-> LongText],
     [group |-> "2", title |-> LongText], [group |-> "9", title |-> ShortText]}

\* per architecture component: the lane
ArchRowSpecs == {[lane_idx |-> 0], [lane_idx |-> 1], [lane_idx |-> 2]}

\* connections between the first two shapes, one with a label
RowConnSpecs ==
    {[src |-> RowId(1), tgt |-> RowId(2), label |-> <<"Y", "E", "S">>],
     [src |-> RowId(2), tgt |-> RowId(1), label |-> NoLabel]}

FlowRow(q) ==
    [i \in DOMAIN q |-> [id |-> RowId(i), text |-> q[i].text, preset |-> q[i].preset]]

OrgRow(q) ==
    [i \in DOMAIN q |->
        [id |-> RowId(i), name |-> ShortText, title |-> q[i].title, group |-> q[i].group]]

ArchRow(q) == [i \in DOMAIN q |-> [id |-> RowId(i), lane_idx |-> q[i].lane_idx]]

InitGen ==
    /\ gen \in {"flowchart", "org_chart", "architecture"}
    /\ \/ gen = "flowchart"
          /\ \E q \in SeqsUpTo(FlowRowSpecs, MaxRow) : SHAPES = FlowRow(q)
          /\ CONNECTIONS \in SeqsUpTo(RowConnSpecs, MaxConns)
       \/ gen = "org_chart"
          /\ \E q \in SeqsUpTo(OrgRowSpecs, MaxRow) : SHAPES = OrgRow(q)
          /\ CONNECTIONS \in SeqsUpTo({[src |-> RowId(1), tgt |-> RowId(2)]}, MaxConns)
       \/ gen = "architecture"
          /\ \E q \in SeqsUpTo(ArchRowSpecs, MaxRow) : SHAPES = ArchRow(q)
          /\ CONNECTIONS \in SeqsUpTo(RowConnSpecs, MaxConns)
    /\ MainIdle
    /\ TwoIdle
    /\ ValIdle
    /\ CallIdle

\* __main__ of flowchart.py / org_chart.py: QC1
GenQC1 ==
    /\ gen \in {"flowchart", "org_chart"}
    /\ pc = "qc1"
    /\ qc1' = IF gen = "flowchart"
              THEN validate_definition(SHAPES, CONNECTIONS)
              ELSE org_validate_definition(SHAPES, CONNECTIONS)
    /\ pc' = IF qc1'.raised THEN "aborted" ELSE "compute"
    /\ UNCHANGED <<layout, qc2, tree, qc3, saved>>
    /\ UNCHANGED <<defVars, twoVars, valVars, genVars, callVars>>

\* __main__: compute_layout()
GenCompute ==
    /\ gen \in {"flowchart", "org_chart"}
    /\ pc = "compute"
    /\ layout' = IF gen = "flowchart"
                 THEN compute_layout(SHAPES, CONNECTIONS)
                 ELSE org_compute_layout(SHAPES, CONNECTIONS)
    /\ pc' = IF layout'.pc = "raised" THEN "aborted" ELSE "qc2"
    /\ UNCHANGED <<qc1, qc2, tree, qc3, saved>>
    /\ UNCHANGED <<defVars, twoVars, valVars, genVars, callVars>>

\* __main__: QC2; the run then goes on to render
GenQC2 ==
    /\ gen \in {"flowchart", "org_chart"}
    /\ pc = "qc2"
    /\ qc2' = IF gen = "flowchart"
              THEN validate(layout.placed_shapes, layout.placed_connectors,
                            layout.placed_labels)
              ELSE org_validate(layout.placed_shapes, layout.placed_connectors)
    /\ pc' = IF qc2'.raised THEN "aborted" ELSE "render"
    /\ UNCHANGED <<qc1, layout, tree, qc3, saved>>
    /\ UNCHANGED <<defVars, twoVars, valVars, genVars, callVars>>

\* architecture_diagram.py: main() on COMPONENTS (SHAPES) and ARROWS (CONNECTIONS)
ArchMain ==
    /\ gen = "architecture"
    /\ call = NoCall
    /\ call' = <<"main">>
    /\ result' = arch_main(SHAPES, CONNECTIONS)
    /\ UNCHANGED <<defVars, mainVars, twoVars, valVars, genVars>>

NextGen == GenQC1 \/ GenCompute \/ GenQC2 \/ ArchMain

SpecGen == InitGen /\ [][NextGen]_vars

(***************************************************************************)
(* Functions called on their own, on arguments of a bounded set            *)
(***************************************************************************)
\* all the other variables, at rest
NoPipeline ==
    /\ SHAPES = <<>>
    /\ CONNECTIONS = <<>>
    /\ MainIdle
    /\ TwoIdle
    /\ ValIdle

MaxItems == 4

\* widths and gaps of either parity, the engines' own, and a width larger than
\* the axis
CenterCalls ==
    [n : 1..MaxItems, sw : {1, 1371600, 1600201, 9144001},
     gap : {0, 1, 228600, 304801}]

InitCenter ==
    /\ NoPipeline
    /\ gen = "org_chart"
    /\ call \in CenterCalls
    /\ result = NoCall

\* xs = center_row(len(shapes), sw, gap)
CenterRow ==
    /\ result = NoCall
    /\ result' = center_row(call.n, call.sw, call.gap)
    /\ UNCHANGED <<call, defVars, mainVars, twoVars, valVars, genVars>>

SpecCenter == InitCenter /\ [][CenterRow]_vars

MaxText == 5

\* labels of 1..MaxText glyphs; boxes with no usable width, with room for a
\* few glyphs, and of the engine's size; boxes with no usable height, with
\* room for a line of 10 pt, and of the engine's height; the size ranges of
\* the two engines and one whose steps do not end on min_size
FontCalls ==
    [text : {[i \in 1..n |-> "x"] : n \in 1..MaxText},
     cx : {182880, 200000, 210000, 1371600},
     cy : {91440, 243840, 609600},
     range : {<<800, 1400>>, <<800, 1100>>, <<800, 1450>>}]

InitFont ==
    /\ NoPipeline
    /\ gen = "flowchart"
    /\ call \in FontCalls
    /\ result = NoCall

\* font_size = estimate_font_size(text, cx, cy, min_size, max_size)
EstimateFontSize ==
    /\ result = NoCall
    /\ result' = <<estimate_font_size(call.text, call.cx, call.cy,
                                      call.range[1], call.range[2])>>
    /\ UNCHANGED <<call, defVars, mainVars, twoVars, valVars, genVars>>

SpecFont == InitFont /\ [][EstimateFontSize]_vars

(***************************************************************************)
(* validate applied to an engine layout whose connectors were altered      *)
(***************************************************************************)
\* right of and below RectA, clear of it
RectC == Rect(3000000, 2500000, 1371600, 685800)

\* two placed shapes, ids 4 and 5, as either engine records them
AlignShapes ==
    <<[shape_id |-> 4, key |-> "a", text |-> <<"G", "O">>, text_line2 |-> <<>>,
       preset |-> "flowChartProcess", rect |-> RectA, font_size |-> 1000,
       font_size2 |-> 800, z_layer |-> 3],
      [shape_id |-> 5, key |-> "b", text |-> <<"G", "O">>, text_line2 |-> <<>>,
       preset |-> "flowChartProcess", rect |-> RectC, font_size |-> 1000,
       font_size2 |-> 800, z_layer |-> 3]>>

\* the connector the engine computes between the two shapes, in direction e
EngineConnector(g, e) ==
    LET src_rect == shape_by_id(AlignShapes, e[1]).rect
        tgt_rect == shape_by_id(AlignShapes, e[2]).rect
        bb == IF g = "flowchart"
              THEN compute_connector_bbox(src_rect, tgt_rect, "right_to_left")
              ELSE org_compute_connector_bbox(src_rect, tgt_rect)
    IN [src_shape_id |-> e[1], tgt_shape_id |-> e[2],
        src_idx |-> IF g = "flowchart" THEN 1 ELSE 2,
        tgt_idx |-> IF g = "flowchart" THEN 3 ELSE 0,
        rect |-> bb.rect, flip_h |-> bb.flip_h, flip_v |-> bb.flip_v, z_layer |-> 2]

\* displacements of x, y, cx, cy: none, within the tolerance, and beyond it on
\* one field
Displacements ==
    {<<0, 0, 0, 0>>, <<-1, 1, -1, 1>>, <<2, 0, 0, 0>>, <<0, -2, 0, 0>>,
     <<0, 0, 2, 0>>, <<0, 0, 0, -2>>}

\* the engine's connector, displaced by d, flip_h and flip_v inverted on demand
Altered(c, d, fh, fv) ==
    [c EXCEPT !.rect = Rect(c.rect.x + d[1], c.rect.y + d[2],
                            c.rect.cx + d[3], c.rect.cy + d[4]),
              !.flip_h = (c.flip_h # fh),
              !.flip_v = (c.flip_v # fv)]

AlteredConnectors(g) ==
    {Altered(EngineConnector(g, e), d, fh, fv) :
        e \in {<<4, 5>>, <<5, 4>>}, d \in Displacements, fh \in BOOLEAN, fv \in BOOLEAN}

\* conn_id by position, after the shapes' ids
WithConnIds(q) ==
    [k \in DOMAIN q |->
        [conn_id |-> 5 + k, src_shape_id |-> q[k].src_shape_id, src_idx |-> q[k].src_idx,
         tgt_shape_id |-> q[k].tgt_shape_id, tgt_idx |-> q[k].tgt_idx, rect |-> q[k].rect,
         flip_h |-> q[k].flip_h, flip_v |-> q[k].flip_v, z_layer |-> q[k].z_layer]]

InitAlign ==
    /\ SHAPES = <<>>
    /\ CONNECTIONS = <<>>
    /\ MainIdle
    /\ TwoIdle
    /\ CallIdle
    /\ gen \in {"flowchart", "org_chart"}
    /\ \E q \in SeqsUpTo(AlteredConnectors(gen), MaxConns) :
          placed = [shapes |-> AlignShapes, connectors |-> WithConnIds(q), labels |-> <<>>]
    /\ vres = LayoutNotRun

\* layout_warnings = validate(placed_shapes, placed_connectors[, placed_labels])
ValidateAltered ==
    /\ vres = LayoutNotRun
    /\ vres' = IF gen = "flowchart"
               THEN validate(placed.shapes, placed.connectors, placed.labels)
               ELSE org_validate(placed.shapes, placed.connectors)
    /\ UNCHANGED <<placed, defVars, mainVars, twoVars, genVars, callVars>>

SpecAlign == InitAlign /\ [][ValidateAltered]_vars

(***************************************************************************)
(* build_routed_connector_xml applied to waypoint lists of a bounded set    *)
(***************************************************************************)
MaxPts == 4

\* waypoints on a small grid: segments of odd and even length, shorter and
\* longer than twice a radius, of length zero, and diagonal
GridPoints == {<<x, y>> : x \in {0, 100, 301}, y \in {0, 100}}

\* radius 0, one smaller than half of every segment, one between the halves
\* of the short and the long segments, and the one main() passes
RouteCalls ==
    [waypoints : SeqsUpTo(GridPoints, MaxPts), sid : {7},
     name : {"Arrow 7"}, radius : {0, 40, 60, 120000}]

InitRoute ==
    /\ NoPipeline
    /\ gen = "architecture"
    /\ call \in RouteCalls
    /\ result = NoCall

\* spTree.append(etree.fromstring(build_routed_connector_xml(wp, sid, ...)))
BuildRoutedConnector ==
    /\ result = NoCall
    /\ result' = build_routed_connector_xml(call.waypoints, call.sid, call.name,
                                            call.radius)
    /\ UNCHANGED <<call, defVars, mainVars, twoVars, valVars, genVars>>

SpecRoute == InitRoute /\ [][BuildRoutedConnector]_vars

(***************************************************************************)
(* validate_render applied to every tree of a bounded set, as a renderer    *)
(* other than render_all may leave it                                      *)
(***************************************************************************)
MaxTree == 4

\* what a child of spTree was emitted for
ElementKinds == {"bg", "title", "titlebar", "lane", "conn", "shape", "label"}

\* the child emitted for kind, with identifier id; a connector refers to the
\* ids st and en
ElementOf(kind, id, st, en) ==
    CASE kind = "bg" -> Element("sp", id, Chars("Background"), <<>>)
      [] kind = "title" -> Element("sp", id, Chars("Title"), <<>>)
      [] kind = "titlebar" -> Element("sp", id, Chars("TitleBar"), <<>>)
      [] kind = "lane" -> Element("sp", id, Chars("Lane ") \o <<"1">>, <<>>)
      [] kind = "conn" ->
            render_connector([conn_id |-> id, src_shape_id |-> st, tgt_shape_id |-> en])
      [] kind = "shape" -> render_shape([shape_id |-> id, key |-> "a"])
      [] OTHER -> render_label([label_id |-> id])

\* ids by position, from IdStart on; every connector refers to st and en, each
\* the id of some position or an id of none
InitTree ==
    /\ SHAPES = <<>>
    /\ CONNECTIONS = <<>>
    /\ pc = "qc3"
    /\ qc1 = NotRun
    /\ layout = Frame0
    /\ qc2 = LayoutNotRun
    /\ saved = FALSE
    /\ TwoIdle
    /\ ValIdle
    /\ CallIdle
    /\ gen = "flowchart"
    /\ \E q \in SeqsUpTo(ElementKinds, MaxTree) :
          \E st \in IdStart..(IdStart + MaxTree), en \in {IdStart, IdStart + MaxTree} :
              tree = [k \in DOMAIN q |-> ElementOf(q[k], IdStart + k - 1, st, en)]
    /\ qc3 = RenderNotRun

\* qc3, actual = validate_render(spTree, expected)
ValidateRender ==
    /\ qc3 = RenderNotRun
    /\ qc3' = validate_render(tree, Len(tree))
    /\ UNCHANGED <<pc, qc1, layout, qc2, tree, saved>>
    /\ UNCHANGED <<defVars, twoVars, valVars, genVars, callVars>>

SpecTree == InitTree /\ [][ValidateRender]_vars

(***************************************************************************)
(* hub_spoke_diagram.py: radial placement.  The coordinates are computed   *)
(* in IEEE double arithmetic and truncated by int(); naturals too large    *)
(* for a machine integer are held as their bits, least significant first.  *)
(***************************************************************************)
RECURSIVE NatBits(_)
NatBits(n) == IF n = 0 THEN <<>> ELSE <<n % 2>> \o NatBits(n \div 2)

RECURSIVE BitsNat(_)
BitsNat(b) == IF b = <<>> THEN 0 ELSE b[1] + 2 * BitsNat(Tail(b))

Bit(b, k) == IF k \in 1..Len(b) THEN b[k] ELSE 0

\* without its high zero bits
Strip(b) ==
    LET ones == {k \in DOMAIN b : b[k] = 1}
    IN IF ones = {} THEN <<>>
       ELSE SubSeq(b, 1, CHOOSE k \in ones : \A j \in ones : j <= k)

\* addition and subtraction go by chunks of 14 bits

\* the value of chunk k of b
Chunk(b, k) ==
    BitsNat([i \in 1..14 |-> Bit(b, ((k - 1) * 14) + i)])

\* v < 16384 as 14 bits
ChunkOf(v) == LET low == NatBits(v) IN low \o [i \in 1..(14 - Len(low)) |-> 0]

RECURSIVE AddFrom(_, _, _, _)
AddFrom(a, b, k, carry) ==
    IF (k - 1) * 14 >= Len(a) /\ (k - 1) * 14 >= Len(b)
    THEN (IF carry = 1 THEN <<1>> ELSE <<>>)
    ELSE LET s == Chunk(a, k) + Chunk(b, k) + carry
         IN ChunkOf(s % 16384) \o AddFrom(a, b, k + 1, s \div 16384)

AddBits(a, b) == Strip(AddFrom(a, b, 1, 0))

\* a - b for a >= b
RECURSIVE SubFrom(_, _, _, _)
SubFrom(a, b, k, borrow) ==
    IF (k - 1) * 14 >= Len(a) THEN <<>>
    ELSE LET s == 16384 + Chunk(a, k) - Chunk(b, k) - borrow
         IN ChunkOf(s % 16384)
            \o SubFrom(a, b, k + 1, IF s < 16384 THEN 1 ELSE 0)

SubBits(a, b) == Strip(SubFrom(a, b, 1, 0))

\* a <= b: equal, or b has the highest bit in which they differ
LeqBits(a, b) ==
    LET diff == {k \in 1..(Len(a) + Len(b)) : Bit(a, k) # Bit(b, k)}
    IN diff = {} \/ Bit(b, CHOOSE k \in diff : \A j \in diff : j <= k) = 1

ShiftLeft(a, k) == IF a = <<>> THEN <<>> ELSE [i \in 1..k |-> 0] \o a

ShiftRight(a, k) == SubSeq(a, k + 1, Len(a))

\* a * b by shift and add over the bits of b from bit k on; acc is the sum
\* so far
RECURSIVE MulFrom(_, _, _, _)
MulFrom(a, b, k, acc) ==
    IF k > Len(b) THEN acc
    ELSE LET sum == IF b[k] = 1 THEN AddBits(ShiftLeft(a, k - 1), acc) ELSE acc
         IN IF Len(sum) >= 0 THEN MulFrom(a, b, k + 1, sum) ELSE <<>>

MulBits(a, b) == Strip(MulFrom(a, b, 1, <<>>))

\* a double: sign, significand (at most 53 bits) and exponent of two
Double(neg, man, exp) == [neg |-> neg, man |-> man, exp |-> exp]

\* the double nearest to man * 2^exp, ties to the even significand
Round53(neg, man, exp) ==
    IF Len(man) <= 53 THEN Double(neg /\ man # <<>>, man, exp)
    ELSE LET s == Len(man) - 53
             q == ShiftRight(man, s)
             sticky == \E k \in 1..(s - 1) : man[k] = 1
             up == man[s] = 1 /\ (sticky \/ q[1] = 1)
         IN Double(neg, IF up THEN AddBits(q, <<1>>) ELSE q, exp + s)

\* float(n) * x for an int n >= 0
MulInt(n, x) == Round53(x.neg, MulBits(x.man, NatBits(n)), x.exp)

\* float(n) + x for an int n >= 0
AddInt(n, x) ==
    LET e == IF x.exp < 0 THEN x.exp ELSE 0
        a == ShiftLeft(NatBits(n), 0 - e)
        b == ShiftLeft(x.man, x.exp - e)
    IN IF ~x.neg THEN Round53(FALSE, AddBits(a, b), e)
       ELSE IF LeqBits(b, a) THEN Round53(FALSE, SubBits(a, b), e)
       ELSE Round53(TRUE, SubBits(b, a), e)

\* int(x): truncation toward zero
Trunc(x) ==
    LET mag == IF x.exp >= 0 THEN BitsNat(ShiftLeft(x.man, x.exp))
               ELSE BitsNat(ShiftRight(x.man, 0 - x.exp))
    IN IF x.neg THEN 0 - mag ELSE mag

\* a significand given as hi * 2^27 + lo
Significand(hi, lo) ==
    LET low == NatBits(lo)
    IN Strip(low \o [i \in 1..(27 - Len(low)) |-> 0] \o NatBits(hi))

\* math.cos(math.radians(d)) and math.sin(math.radians(d)) for a whole number
\* d of degrees, as doubles
Trig(d) ==
    CASE   d = -90 -> [cos |-> [neg |-> FALSE, hi |-> 37012678, lo |-> 51665927, exp |-> -106],
                   sin |-> [neg |-> TRUE, hi |-> 33554432, lo |-> 0, exp |-> -52]]
    [] d = -50 -> [cos |-> [neg |-> FALSE, hi |-> 43136746, lo |-> 37492253, exp |-> -53],
                   sin |-> [neg |-> TRUE, hi |-> 51408372, lo |-> 47140921, exp |-> -53]]
    [] d = -45 -> [cos |-> [neg |-> FALSE, hi |-> 47453132, lo |-> 109001677, exp |-> -53],
                   sin |-> [neg |-> TRUE, hi |-> 47453132, lo |-> 109001676, exp |-> -53]]
    [] d = -30 -> [cos |-> [neg |-> FALSE, hi |-> 58117981, lo |-> 5786795, exp |-> -53],
                   sin |-> [neg |-> TRUE, hi |-> 67108863, lo |-> 134217727, exp |-> -54]]
    [] d = -18 -> [cos |-> [neg |-> FALSE, hi |-> 63824322, lo |-> 54809855, exp |-> -53],
                   sin |-> [neg |-> TRUE, hi |-> 41475558, lo |-> 120580431, exp |-> -54]]
    [] d = -10 -> [cos |-> [neg |-> FALSE, hi |-> 66089329, lo |-> 75570199, exp |-> -53],
                   sin |-> [neg |-> TRUE, hi |-> 46613327, lo |-> 101413769, exp |-> -55]]
    [] d = 0 -> [cos |-> [neg |-> FALSE, hi |-> 33554432, lo |-> 0, exp |-> -52],
                   sin |-> [neg |-> FALSE, hi |-> 0, lo |-> 0, exp |-> -53]]
    [] d = 30 -> [cos |-> [neg |-> FALSE, hi |-> 58117981, lo |-> 5786795, exp |-> -53],
                   sin |-> [neg |-> FALSE, hi |-> 67108863, lo |-> 134217727, exp |-> -54]]
    [] d = 45 -> [cos |-> [neg |-> FALSE, hi |-> 47453132, lo |-> 109001677, exp |-> -53],
                   sin |-> [neg |-> FALSE, hi |-> 47453132, lo |-> 109001676, exp |-> -53]]
    [] d = 54 -> [cos |-> [neg |-> FALSE, hi |-> 39445600, lo |-> 74799710, exp |-> -53],
                   sin |-> [neg |-> FALSE, hi |-> 54292211, lo |-> 60290216, exp |-> -53]]
    [] d = 70 -> [cos |-> [neg |-> FALSE, hi |-> 45905166, lo |-> 76155895, exp |-> -54],
                   sin |-> [neg |-> FALSE, hi |-> 63061704, lo |-> 38939931, exp |-> -53]]
    [] d = 90 -> [cos |-> [neg |-> FALSE, hi |-> 37012678, lo |-> 51665927, exp |-> -106],
                   sin |-> [neg |-> FALSE, hi |-> 33554432, lo |-> 0, exp |-> -52]]
    [] d = 110 -> [cos |-> [neg |-> TRUE, hi |-> 45905166, lo |-> 76155893, exp |-> -54],
                   sin |-> [neg |-> FALSE, hi |-> 63061704, lo |-> 38939932, exp |-> -53]]
    [] d = 126 -> [cos |-> [neg |-> TRUE, hi |-> 39445600, lo |-> 74799709, exp |-> -53],
                   sin |-> [neg |-> FALSE, hi |-> 54292211, lo |-> 60290216, exp |-> -53]]
    [] d = 135 -> [cos |-> [neg |-> TRUE, hi |-> 47453132, lo |-> 109001676, exp |-> -53],
                   sin |-> [neg |-> FALSE, hi |-> 47453132, lo |-> 109001677, exp |-> -53]]
    [] d = 150 -> [cos |-> [neg |-> TRUE, hi |-> 58117981, lo |-> 5786795, exp |-> -53],
                   sin |-> [neg |-> FALSE, hi |-> 67108863, lo |-> 134217727, exp |-> -54]]
    [] d = 180 -> [cos |-> [neg |-> TRUE, hi |-> 33554432, lo |-> 0, exp |-> -52],
                   sin |-> [neg |-> FALSE, hi |-> 37012678, lo |-> 51665927, exp |-> -105]]
    [] d = 190 -> [cos |-> [neg |-> TRUE, hi |-> 66089329, lo |-> 75570199, exp |-> -53],
                   sin |-> [neg |-> TRUE, hi |-> 46613327, lo |-> 101413774, exp |-> -55]]
    [] d = 198 -> [cos |-> [neg |-> TRUE, hi |-> 63824322, lo |-> 54809856, exp |-> -53],
                   sin |-> [neg |-> TRUE, hi |-> 41475558, lo |-> 120580429, exp |-> -54]]
    [] d = 210 -> [cos |-> [neg |-> TRUE, hi |-> 58117981, lo |-> 5786794, exp |-> -53],
                   sin |-> [neg |-> TRUE, hi |-> 33554432, lo |-> 1, exp |-> -53]]
    [] d = 225 -> [cos |-> [neg |-> TRUE, hi |-> 47453132, lo |-> 109001678, exp |-> -53],
                   sin |-> [neg |-> TRUE, hi |-> 47453132, lo |-> 109001676, exp |-> -53]]
    [] d = 230 -> [cos |-> [neg |-> TRUE, hi |-> 43136746, lo |-> 37492254, exp |-> -53],
                   sin |-> [neg |-> TRUE, hi |-> 51408372, lo |-> 47140920, exp |-> -53]]

ToDouble(t) == Double(t.neg, Significand(t.hi, t.lo), t.exp)

math_cos(d) == ToDouble(Trig(d).cos)

math_sin(d) == ToDouble(Trig(d).sin)

SPOKE_W == 1371600
SPOKE_H == 685800
RADIUS == 1828800
HUB_TITLE_H == 457200
CENTER_X == SLIDE_W \div 2
CENTER_Y == ((HUB_TITLE_H + 228600) + (SLIDE_H - 114300)) \div 2

\* -90 + i * (360 / n), a whole number of degrees when n divides 360
SpokeAngle(i, n) == -90 + (i * (360 \div n))

\* one iteration of "for i, (key, ...) in enumerate(SPOKES)": the centre and
\* the top-left corner of spoke i
spoke_position(i, n, radius) ==
    LET d == SpokeAngle(i, n)
        cx == Trunc(AddInt(CENTER_X, MulInt(radius, math_cos(d))))
        cy == Trunc(AddInt(CENTER_Y, MulInt(radius, math_sin(d))))
    IN [angle |-> d, cx |-> cx, cy |-> cy,
        left |-> cx - (SPOKE_W \div 2), top |-> cy - (SPOKE_H \div 2)]

spoke_positions(n, radius) == [k \in 1..n |-> spoke_position(k - 1, n, radius)]

\* "for key in spoke_positions": an arrow per spoke, none for a spoke whose
\* centre is the hub centre (dist == 0)
RECURSIVE EmitHubArrows(_, _, _)
EmitHubArrows(M, pos, k) ==
    IF k > Len(pos) THEN M
    ELSE IF pos[k].cx = CENTER_X /\ pos[k].cy = CENTER_Y
    THEN EmitHubArrows(M, pos, k + 1)
    ELSE EmitHubArrows(Emit(M, "connector", "Arrow"), pos, k + 1)

\* "for key, text, preset, fill, border in SPOKES", from spoke k on
RECURSIVE EmitSpokes(_, _, _)
EmitSpokes(M, n, k) ==
    IF k > n THEN M ELSE EmitSpokes(Emit(M, "shape", RowId(k)), n, k + 1)

\* main() of hub_spoke_diagram.py on n spokes: background, title, spoke
\* positions, arrows, hub, spokes, save
hub_main(n, radius) ==
    LET pos == spoke_positions(n, radius)
        M1 == Emit(Emit(Main0, "background", "Background"), "title", "Title")
        M2 == EmitSpokes(Emit(EmitHubArrows(M1, pos, 1), "shape", "gateway"), n, 1)
    IN [main |-> [M2 EXCEPT !.pc = "saved"], spoke_positions |-> pos]

MaxSpokes == 8

\* the spoke counts for which 360 / n is a whole number of degrees; the
\* shipped radius, the radius of the earlier revision, and smaller ones
HubCalls ==
    [n : {n \in 1..MaxSpokes : 360 % n = 0},
     radius : {RADIUS, 2103120, 1371600, 1000000, 914400, 457200, 1, 0}]

InitHub ==
    /\ NoPipeline
    /\ gen = "hub_spoke"
    /\ call \in HubCalls
    /\ result = NoCall

\* main() with len(SPOKES) = call.n and RADIUS = call.radius
HubMain ==
    /\ result = NoCall
    /\ result' = hub_main(call.n, call.radius)
    /\ UNCHANGED <<call, defVars, mainVars, twoVars, valVars, genVars>>

SpecHub == InitHub /\ [][HubMain]_vars

(***************************************************************************)
(* m365_genai_architecture.py: the routes between components and main()    *)
(***************************************************************************)
\* the edge anchors and centres of a rect p = (x, y, w, h)
_rc(p) == <<p.x + p.cx, p.y + (p.cy \div 2)>>

_lc(p) == <<p.x, p.y + (p.cy \div 2)>>

_bc(p) == <<p.x + (p.cx \div 2), p.y + p.cy>>

_tc(p) == <<p.x + (p.cx \div 2), p.y>>

_ccx(p) == p.x + (p.cx \div 2)

_ccy(p) == p.y + (p.cy \div 2)

\* IN(0.4) = int(0.4 * 914400)
SameRowLimit == 365760

\* the Z-shape that leaves the source downward: bottom centre, mid_y, top centre
ZDown(sp, tp) ==
    LET b == _bc(sp)
        t == _tc(tp)
        mid_y == (b[2] + t[2]) \div 2
    IN <<b, <<b[1], mid_y>>, <<t[1], mid_y>>, t>>

\* the Z-shape between the facing sides (x1, y1) and (x2, y2)
ZAcross(a, b) ==
    LET mid_x == (a[1] + b[1]) \div 2
    IN <<a, <<mid_x, a[2]>>, <<mid_x, b[2]>>, b>>

\* compute_waypoints(src_id, tgt_id) with the lookup POS
compute_waypoints(src_id, tgt_id, POS) ==
    LET sp == POS[src_id]
        tp == POS[tgt_id]
        same_row == Abs(_ccy(sp) - _ccy(tp)) < SameRowLimit
        pair == <<src_id, tgt_id>>
    IN CASE pair \in {<<"teams", "agent">>, <<"powerapps", "agent">>} -> ZDown(sp, tp)
         [] pair = <<"agent", "gen_answers">> -> <<_bc(sp), _tc(tp)>>
         [] pair = <<"agent", "graph_ground">> -> ZDown(sp, tp)
         [] pair \in {<<"agent", "sp_docs">>, <<"lists", "agent">>} ->
                ZAcross(_rc(sp), _lc(tp))
         [] pair = <<"lists", "approval">> -> <<_bc(sp), _tc(tp)>>
         [] pair = <<"sp_docs", "pauto_cloud">> -> <<_rc(sp), _lc(tp)>>
         [] pair = <<"pauto_cloud", "ai_builder">> -> ZDown(sp, tp)
         [] pair \in {<<"ai_builder", "sp_list">>, <<"sp_list", "dv_metadata">>} ->
                <<_rc(sp), _lc(tp)>>
         [] pair = <<"sp_docs", "sp_search">> -> ZDown(sp, tp)
         [] OTHER ->
                IF same_row /\ _ccx(sp) < _ccx(tp) THEN <<_rc(sp), _lc(tp)>>
                ELSE IF same_row THEN <<_lc(sp), _rc(tp)>>
                ELSE IF _ccx(sp) < _ccx(tp) THEN ZAcross(_rc(sp), _lc(tp))
                ELSE ZAcross(_lc(sp), _rc(tp))

REGIONS ==
    <<"DELIVERY & INTERFACE", "SHARED PROMPT LIBRARY", "DOCUMENT MANAGEMENT",
      "RETRIEVAL & SEARCH", "GOVERNANCE">>

\* len(MANUAL_LABELS)
ManualLabels == 14

\* the ids of COMPONENTS; an id outside it is a KeyError in POS
ComponentIds(components) == {components[k].id : k \in DOMAIN components}

\* "POS[cid] = (IN(xi), IN(yi), IN(wi), IN(hi))": the last component of an id
POSOf(components) ==
    [cid \in ComponentIds(components) |->
        LET ks == {k \in DOMAIN components : components[k].id = cid}
        IN components[CHOOSE k \in ks : \A j \in ks : j <= k].rect]

RECURSIVE EmitRegions(_, _)
EmitRegions(M, k) ==
    IF k > Len(REGIONS) THEN M
    ELSE EmitRegions(Emit(M, "lane", "Region " \o REGIONS[k]), k + 1)

\* "for src_id, tgt_id, label, color, dash in ARROWS", from arrow k on
RECURSIVE EmitRouted(_, _, _, _)
EmitRouted(M, POS, arrows, k) ==
    IF k > Len(arrows) THEN M
    ELSE IF arrows[k].src \notin DOMAIN POS \/ arrows[k].tgt \notin DOMAIN POS
    THEN [M EXCEPT !.pc = "raised", !.error = "KeyError POS"]
    ELSE LET waypoints == compute_waypoints(arrows[k].src, arrows[k].tgt, POS)
             x == build_routed_connector_xml(waypoints, M.sid, "Arrow", 80000)
         IN IF x.raised
            THEN [M EXCEPT !.pc = "raised", !.error = x.error.kind]
            ELSE EmitRouted(Emit(M, "connector", "Arrow"), POS, arrows, k + 1)

\* n elements of one kind, appended one after the other
RECURSIVE EmitN(_, _, _, _)
EmitN(M, kind, name, n) ==
    IF M.pc = "raised" \/ n = 0 THEN M ELSE EmitN(Emit(M, kind, name), kind, name, n - 1)

\* enrich_pptx_with_icons: a picture for every component whose icon resolved
RECURSIVE EmitIcons(_, _, _, _)
EmitIcons(M, components, icons, k) ==
    IF M.pc = "raised" \/ k > Len(components) THEN M
    ELSE IF components[k].id \in icons
    THEN EmitIcons(Emit(M, "icon", components[k].id), components, icons, k + 1)
    ELSE EmitIcons(M, components, icons, k + 1)

\* mutant: the component shapes are emitted before the connector labels
m365_main_ShapesBeforeLabels(components, arrows, icons) ==
    LET M1 == Emit(EmitRegions(Emit(Main0, "background", "Background"), 1),
                   "title", "TitleBar")
        M2 == EmitComponents(EmitRouted(M1, POSOf(components), arrows, 1),
                             components, 1)
        M3 == EmitN(EmitN(M2, "label", "Lbl", ManualLabels), "label", "Lbl", 2)
        M4 == EmitIcons(M3, components, icons, 1)
    IN IF M4.pc = "raised" THEN M4 ELSE [M4 EXCEPT !.pc = "saved"]

\* main(): background, regions, title bar, connectors, connector labels,
\* component shapes, annotations, save, icons
m365_main(components, arrows, icons) ==
    LET M1 == Emit(EmitRegions(Emit(Main0, "background", "Background"), 1),
                   "title", "TitleBar")
        M2 == EmitN(EmitRouted(M1, POSOf(components), arrows, 1),
                    "label", "Lbl", ManualLabels)
        M3 == EmitN(EmitComponents(M2, components, 1), "label", "Lbl", 2)
        M4 == EmitIcons(M3, components, icons, 1)
    IN IF M4.pc = "raised" THEN M4 ELSE [M4 EXCEPT !.pc = "saved"]

(***************************************************************************)
(* One iteration of the connector loop of m365 main() on two placed        *)
(* components                                                              *)
(***************************************************************************)
\* components of each routing rule: the named pairs and the general rule
WayIds == {"teams", "agent", "gen_answers", "sp_docs", "pauto_cloud", "entra", "gov_sp"}

\* positive-size rects on a grid: equal, side by side, one above the other
WayRects ==
    {Rect(x, y, s[1], s[2]) :
        x \in {914400, 2743200}, y \in {457200, 1828800},
        s \in {<<1554480, 594360>>, <<2103120, 822960>>}}

WayCalls ==
    {c \in [src : WayIds, tgt : WayIds, sp : WayRects, tp : WayRects, sid : {7}] :
        c.src # c.tgt}

InitWay ==
    /\ NoPipeline
    /\ gen = "m365"
    /\ call \in WayCalls
    /\ result = NoCall

\* waypoints = compute_waypoints(src_id, tgt_id);
\* xml = build_routed_connector_xml(waypoints, sid, ..., radius=80000)
RouteArrow ==
    /\ result = NoCall
    /\ LET POS == (call.src :> call.sp) @@ (call.tgt :> call.tp)
           waypoints == compute_waypoints(call.src, call.tgt, POS)
       IN result' = [waypoints |-> waypoints,
                     xml |-> build_routed_connector_xml(waypoints, call.sid,
                                                        "Arrow", 80000)]
    /\ UNCHANGED <<call, defVars, mainVars, twoVars, valVars, genVars>>

SpecWay == InitWay /\ [][RouteArrow]_vars

(***************************************************************************)
(* branching_flowchart.py: main()                                          *)
(***************************************************************************)
SW == 1508760
BRANCH_SH == 800100
DH == 1028700
GAP_H == 274320
GAP_V == 457200
BRANCH_R == 150000
BRANCH_MARGIN_TOP == 700000
_TOTAL_W == (4 * SW) + (3 * GAP_H)
_LEFT == (SLIDE_W - _TOTAL_W) \div 2

\* the keys of the dict shapes in insertion order
BranchKeys == <<"start", "validate", "valid", "process", "complete", "done", "reject">>

\* shapes[key][2:6]: the 4-column, 2-row grid
BranchShapes ==
    LET col(k) == _LEFT + ((k - 1) * (SW + GAP_H))
        row1_y == BRANCH_MARGIN_TOP
        row2_y == row1_y + DH + GAP_V
        box(x, y) == Rect(x, y + ((DH - BRANCH_SH) \div 2), SW, BRANCH_SH)
    IN [key \in SetOf(BranchKeys) |->
           CASE key = "start" -> box(col(1), row1_y)
             [] key = "validate" -> box(col(2), row1_y)
             [] key = "valid" -> Rect(col(3), row1_y, SW, DH)
             [] key = "process" -> box(col(2), row2_y)
             [] key = "complete" -> Rect(col(3), row2_y, SW, DH)
             [] key = "done" -> box(col(4), row2_y)
             [] OTHER -> box(col(4), row1_y)]

\* the waypoint lists of the seven connectors
BranchRoutes ==
    LET s == BranchShapes
        straight(a, b) == <<_rc(s[a]), _lc(s[b])>>
        mid_y == _bc(s["valid"])[2] + ((s["process"].y - _bc(s["valid"])[2]) \div 2)
        loop_y == _bc(s["complete"])[2] + 300000
    IN << straight("start", "validate"),
          straight("validate", "valid"),
          straight("valid", "reject"),
          <<_bc(s["valid"]), <<_ccx(s["valid"]), mid_y>>,
            <<_ccx(s["process"]), mid_y>>, _tc(s["process"])>>,
          straight("process", "complete"),
          straight("complete", "done"),
          <<_bc(s["complete"]), <<_ccx(s["complete"]), loop_y>>,
            <<_ccx(s["process"]), loop_y>>, _bc(s["process"])>> >>

\* the connectors, from connector k on
RECURSIVE EmitBranchArrows(_, _)
EmitBranchArrows(M, k) ==
    IF k > Len(BranchRoutes) THEN M
    ELSE LET x == build_routed_connector_xml(BranchRoutes[k], M.sid, "Arrow", BRANCH_R)
         IN IF x.raised
            THEN [M EXCEPT !.pc = "raised", !.error = x.error.kind]
            ELSE EmitBranchArrows(Emit(M, "connector", "Arrow"), k + 1)

\* "for key, (...) in shapes.items()", from shape k on
RECURSIVE EmitBranchShapes(_, _)
EmitBranchShapes(M, k) ==
    IF M.pc = "raised" \/ k > Len(BranchKeys) THEN M
    ELSE EmitBranchShapes(Emit(M, "shape", BranchKeys[k]), k + 1)

\* main(): background, title, connectors, shapes, the four YES/NO labels, save
branching_main ==
    LET M1 == Emit(Emit(Main0, "background", "Background"), "title", "Title")
        M2 == EmitN(EmitBranchShapes(EmitBranchArrows(M1, 1), 1), "label", "Label", 4)
    IN IF M2.pc = "raised" THEN M2 ELSE [M2 EXCEPT !.pc = "saved"]

(***************************************************************************)
(* The six generators run whole: the sequence of elements each emits       *)
(***************************************************************************)
\* org_chart.render_all: background, title, connectors, shapes
org_render_all(bg_id, title_id, placed_shapes, placed_connectors) ==
    <<Element("sp", bg_id, Chars("Background"), <<>>)>>
    \o <<Element("sp", title_id, Chars("Title"), <<>>)>>
    \o [i \in DOMAIN placed_connectors |-> render_connector(placed_connectors[i])]
    \o [i \in DOMAIN placed_shapes |-> render_shape(placed_shapes[i])]

\* what an element of a rendered tree is, by its tag and name
PaintKind(elem) ==
    IF elem.tag = "cxnSp" THEN "connector"
    ELSE IF elem.name = Chars("Background") THEN "background"
    ELSE IF elem.name = Chars("Title") THEN "title"
    ELSE IF startswith(elem.name, Chars("Label ")) THEN "label"
    ELSE "shape"

Painted(raised, kinds) == [raised |-> raised, paint |-> kinds]

\* __main__ of flowchart.py: QC1, compute_layout, QC2, render_all
flowchart_main(shapes, connections) ==
    IF validate_definition(shapes, connections).raised THEN Painted(TRUE, <<>>)
    ELSE LET L == compute_layout(shapes, connections)
         IN IF L.pc = "raised" THEN Painted(TRUE, <<>>)
            ELSE IF validate(L.placed_shapes, L.placed_connectors,
                             L.placed_labels).raised
            THEN Painted(TRUE, <<>>)
            ELSE LET t == render_all(L.bg_id, L.title_id, L.placed_shapes,
                                     L.placed_connectors, L.placed_labels)
                 IN Painted(FALSE, [k \in DOMAIN t |-> PaintKind(t[k])])

\* __main__ of org_chart.py: QC1, compute_layout, QC2, render_all
org_main(shapes, connections) ==
    IF org_validate_definition(shapes, connections).raised THEN Painted(TRUE, <<>>)
    ELSE LET L == org_compute_layout(shapes, connections)
         IN IF L.pc = "raised" THEN Painted(TRUE, <<>>)
            ELSE IF org_validate(L.placed_shapes, L.placed_connectors).raised
            THEN Painted(TRUE, <<>>)
            ELSE LET t == org_render_all(L.bg_id, L.title_id, L.placed_shapes,
                                         L.placed_connectors)
                 IN Painted(FALSE, [k \in DOMAIN t |-> PaintKind(t[k])])

\* the elements a main() has appended, by kind
PaintedBy(M) == Painted(M.pc = "raised", [k \in DOMAIN M.emitted |-> M.emitted[k].kind])

MaxPaint == 3

\* components of the M365 diagram: teams above and left of agent, gen_answers
\* below agent
PaintComponents ==
    {[id |-> "teams", rect |-> Rect(914400, 457200, 1554480, 594360)],
     [id |-> "agent", rect |-> Rect(2743200, 1828800, 2103120, 822960)],
     [id |-> "gen_answers", rect |-> Rect(3017520, 2971800, 1554480, 594360)]}

PaintArrows == {[src |-> "teams", tgt |-> "agent"], [src |-> "agent", tgt |-> "gen_answers"]}

InitPaint ==
    /\ gen \in {"flowchart", "org_chart", "architecture", "branching", "hub_spoke", "m365"}
    /\ \/ gen = "flowchart"
          /\ \E q \in SeqsUpTo(FlowRowSpecs, MaxPaint) : SHAPES = FlowRow(q)
          /\ CONNECTIONS \in SeqsUpTo(RowConnSpecs, MaxConns)
          /\ call = [icons |-> {}]
       \/ gen = "org_chart"
          /\ \E q \in SeqsUpTo(OrgRowSpecs, MaxPaint) : SHAPES = OrgRow(q)
          /\ CONNECTIONS \in SeqsUpTo({[src |-> RowId(1), tgt |-> RowId(2)]}, MaxConns)
          /\ call = [icons |-> {}]
       \/ gen = "architecture"
          /\ \E q \in SeqsUpTo(ArchRowSpecs, MaxPaint) : SHAPES = ArchRow(q)
          /\ CONNECTIONS \in SeqsUpTo(RowConnSpecs, MaxConns)
          /\ call = [icons |-> {}]
       \/ gen = "branching"
          /\ SHAPES = <<>>
          /\ CONNECTIONS = <<>>
          /\ call = [icons |-> {}]
       \/ gen = "hub_spoke"
          /\ \E n \in {n \in 1..MaxPaint : 360 % n = 0} :
                SHAPES = [k \in 1..n |-> [id |-> RowId(k)]]
          /\ CONNECTIONS = <<>>
          /\ call = [icons |-> {}]
       \/ gen = "m365"
          /\ SHAPES \in SeqsUpTo(PaintComponents, MaxPaint)
          /\ CONNECTIONS \in SeqsUpTo(PaintArrows, MaxConns)
          /\ call \in [icons : SUBSET {"teams", "agent"}]
    /\ MainIdle
    /\ TwoIdle
    /\ ValIdle
    /\ result = NoCall

\* the generator script is run from its first line to its last
Generate ==
    /\ result = NoCall
    /\ result' =
         CASE gen = "flowchart" -> flowchart_main(SHAPES, CONNECTIONS)
           [] gen = "org_chart" -> org_main(SHAPES, CONNECTIONS)
           [] gen = "architecture" -> PaintedBy(arch_main(SHAPES, CONNECTIONS))
           [] gen = "branching" -> PaintedBy(branching_main)
           [] gen = "hub_spoke" -> PaintedBy(hub_main(Len(SHAPES), RADIUS).main)
           [] OTHER -> PaintedBy(m365_main(SHAPES, CONNECTIONS, call.icons))
    /\ UNCHANGED <<call, defVars, mainVars, twoVars, valVars, genVars>>

SpecPaint == InitPaint /\ [][Generate]_vars

(***************************************************************************)
(* flowchart.compute_layout applied to rows over the supported presets     *)
(***************************************************************************)
MaxFlow == 3

\* the presets of DIMS
SupportedPresets == {"flowChartProcess", "flowChartDecision", "flowChartTerminator"}

\* no connection, or one between two shapes of the row (a shape and itself
\* included), with or without a label
FlowConnections(n) ==
    {<<>>} \cup {<<[src |-> RowId(i), tgt |-> RowId(j), label |-> l]>> :
                    i \in 1..n, j \in 1..n, l \in {NoLabel, <<"Y", "E", "S">>}}

InitFlow ==
    /\ \E q \in SeqsUpTo([text : {ShortText}, preset : SupportedPresets], MaxFlow) :
          /\ SHAPES = FlowRow(q)
          /\ CONNECTIONS \in FlowConnections(Len(q))
    /\ MainIdle
    /\ TwoIdle
    /\ ValIdle
    /\ gen = "flowchart"
    /\ call = NoCall
    /\ result = NoCall

\* bg_id, title_id, title_rect, shapes, connectors, labels = compute_layout()
ComputeLayout ==
    /\ result = NoCall
    /\ result' = compute_layout(SHAPES, CONNECTIONS)
    /\ UNCHANGED <<call, defVars, mainVars, twoVars, valVars, genVars>>

SpecFlow == InitFlow /\ [][ComputeLayout]_vars

(***************************************************************************)
(* validate applied to connectors whose rect has any extents               *)
(***************************************************************************)
\* widths and heights: negative, zero, the engines' clamp value, a shape's
Extents == {-1, 0, 1, 685800}

\* the engine's connector from shape 4 to shape 5 with its extents replaced
ExtentConnectors(g) ==
    {[EngineConnector(g, <<4, 5>>) EXCEPT !.rect.cx = w, !.rect.cy = h] :
        w \in Extents, h \in Extents}

InitExtent ==
    /\ SHAPES = <<>>
    /\ CONNECTIONS = <<>>
    /\ MainIdle
    /\ TwoIdle
    /\ CallIdle
    /\ gen \in {"flowchart", "org_chart"}
    /\ \E q \in SeqsUpTo(ExtentConnectors(gen), MaxConns) :
          placed = [shapes |-> AlignShapes, connectors |-> WithConnIds(q), labels |-> <<>>]
    /\ vres = LayoutNotRun

SpecExtent == InitExtent /\ [][ValidateAltered]_vars

(***************************************************************************)
(* Properties                                                              *)
(***************************************************************************)
\* what a caller of compute_layout observes: the exception, or the returned tuple
LayoutResult(F) ==
    IF F.pc = "raised"
    THEN [raised |-> TRUE, error |-> F.error, bg_id |-> 0, title_id |-> 0,
          title_rect |-> Rect(0, 0, 0, 0), placed_shapes |-> <<>>,
          placed_connectors |-> <<>>, placed_labels |-> <<>>]
    ELSE [raised |-> FALSE, error |-> "", bg_id |-> F.bg_id, title_id |-> F.title_id,
          title_rect |-> F.title_rect, placed_shapes |-> F.placed_shapes,
          placed_connectors |-> F.placed_connectors, placed_labels |-> F.placed_labels]

\* C1: two invocations of compute_layout over the same definition, run one
\* after the other or with their steps interleaved in any order, end with the
\* same result: the same exception, or equal returned layouts (rectangles,
\* font sizes, connector rects and flips, identifiers).
C1_LayoutDeterministic ==
    (LayoutEnded(frame[1]) /\ LayoutEnded(frame[2]))
        => LayoutResult(frame[1]) = LayoutResult(frame[2])

\* both invocations returned a layout with two shapes, a connector and a label
C1_Witness ==
    \A r \in Runs :
        /\ frame[r].pc = "done"
        /\ Len(frame[r].placed_shapes) = 2
        /\ Len(frame[r].placed_connectors) >= 1
        /\ Len(frame[r].placed_labels) >= 1

\* every identifier of a returned layout, background and title included
LayoutIds(F) ==
    <<F.bg_id, F.title_id>> \o all_ids(F.placed_shapes, F.placed_connectors, F.placed_labels)

\* C2: in every layout compute_layout returns, the identifiers handed out
\* (background, title, every shape_id, conn_id and label_id) are pairwise distinct.
C2_IdsPairwiseDistinct ==
    layout.pc = "done" =>
        \A i, j \in DOMAIN LayoutIds(layout) :
            i # j => LayoutIds(layout)[i] # LayoutIds(layout)[j]

\* a returned layout with two shapes, two connectors and two labels
C2_Witness ==
    /\ layout.pc = "done"
    /\ Len(layout.placed_shapes) = 2
    /\ Len(layout.placed_connectors) = 2
    /\ Len(layout.placed_labels) = 2

\* C3: for a definition that passed validate_definition, the k-th connector of
\* the returned layout refers, as source and as target, to the shape_id of the
\* placed shape whose key is the src, resp. the tgt, of the k-th connection.
C3_ConnectorsReferToPlacedShapes ==
    (pc \notin {"qc1", "compute"} /\ ~qc1.raised /\ layout.pc = "done") =>
        /\ Len(layout.placed_connectors) = Len(CONNECTIONS)
        /\ \A k \in DOMAIN layout.placed_connectors :
              /\ \E i \in DOMAIN layout.placed_shapes :
                    /\ layout.placed_shapes[i].key = CONNECTIONS[k].src
                    /\ layout.placed_shapes[i].shape_id = layout.placed_connectors[k].src_shape_id
              /\ \E i \in DOMAIN layout.placed_shapes :
                    /\ layout.placed_shapes[i].key = CONNECTIONS[k].tgt
                    /\ layout.placed_shapes[i].shape_id = layout.placed_connectors[k].tgt_shape_id

\* a returned layout with a connector between two different shapes
C3_Witness ==
    /\ layout.pc = "done"
    /\ \E k \in DOMAIN layout.placed_connectors :
          layout.placed_connectors[k].src_shape_id # layout.placed_connectors[k].tgt_shape_id

\* the placed shape a connector end refers to
ShapeWithId(F, id) ==
    F.placed_shapes[CHOOSE i \in DOMAIN F.placed_shapes : F.placed_shapes[i].shape_id = id]

Within1(a, b) == a - b <= 1 /\ b - a <= 1

\* C4: for every connector of a returned layout, the anchor points recomputed
\* with connection_point from the referenced shapes' rects and the connector's
\* src_idx/tgt_idx give a bounding box within 1 unit of the connector's rect on
\* x, y, cx and cy, and flips equal to flip_h/flip_v (true exactly when the
\* target anchor coordinate is smaller than the source anchor coordinate);
\* validate then returns no bbox-misaligned and no flip warning.
C4_ConnectorGeometryConsistent ==
    layout.pc = "done" =>
        /\ \A k \in DOMAIN layout.placed_connectors :
              LET c == layout.placed_connectors[k]
                  sp == connection_point(ShapeWithId(layout, c.src_shape_id).rect, c.src_idx)
                  tp == connection_point(ShapeWithId(layout, c.tgt_shape_id).rect, c.tgt_idx)
              IN /\ Within1(c.rect.x, IF sp[1] <= tp[1] THEN sp[1] ELSE tp[1])
                 /\ Within1(c.rect.y, IF sp[2] <= tp[2] THEN sp[2] ELSE tp[2])
                 /\ Within1(c.rect.cx, IF tp[1] = sp[1] THEN 1
                                       ELSE IF tp[1] > sp[1] THEN tp[1] - sp[1]
                                       ELSE sp[1] - tp[1])
                 /\ Within1(c.rect.cy, IF tp[2] = sp[2] THEN 1
                                       ELSE IF tp[2] > sp[2] THEN tp[2] - sp[2]
                                       ELSE sp[2] - tp[2])
                 /\ c.flip_h = (tp[1] < sp[1])
                 /\ c.flip_v = (tp[2] < sp[2])
        /\ pc \in {"render", "qc3", "save", "done"} =>
              \A i \in DOMAIN qc2.warnings :
                  qc2.warnings[i].kind \notin {"bbox misaligned", "flip_h", "flip_v"}

\* validate has run on a layout with a connector that runs right to left
\* between two shapes of different height
C4_Witness ==
    /\ pc = "render"
    /\ \E k \in DOMAIN layout.placed_connectors :
          LET c == layout.placed_connectors[k] IN
          /\ c.flip_h
          /\ ShapeWithId(layout, c.src_shape_id).rect.cy
                 # ShapeWithId(layout, c.tgt_shape_id).rect.cy

HasDuplicateIds(shapes) ==
    \E i, j \in DOMAIN shapes : i # j /\ shapes[i].id = shapes[j].id

\* the ids that occur more than once in the shape list
RepeatedIds(shapes) ==
    {x \in AllKeys : Cardinality({i \in DOMAIN shapes : shapes[i].id = x}) > 1}

IsDangling(conn, shapes) ==
    \/ \A i \in DOMAIN shapes : shapes[i].id # conn.src
    \/ \A i \in DOMAIN shapes : shapes[i].id # conn.tgt

HasDangling(connections, shapes) ==
    \E k \in DOMAIN connections : IsDangling(connections[k], shapes)

\* C5: validate_definition raises for every shape list in which two entries
\* share an id, whatever the connections are, and the error names exactly the
\* set of ids that occur more than once.
C5_DuplicateIdsFatal ==
    (pc # "qc1" /\ HasDuplicateIds(SHAPES)) =>
        /\ qc1.raised
        /\ qc1.error.kind = "Duplicate shape IDs"
        /\ qc1.error.names = RepeatedIds(SHAPES)

\* validate_definition ran on duplicate ids together with a dangling connection
C5_Witness ==
    /\ pc # "qc1"
    /\ HasDuplicateIds(SHAPES)
    /\ HasDangling(CONNECTIONS, SHAPES)

\* the first connection, in definition order, with an end that names no shape
FirstDangling(connections, shapes) ==
    connections[CHOOSE k \in DOMAIN connections :
                    /\ IsDangling(connections[k], shapes)
                    /\ \A j \in 1..(k - 1) : ~IsDangling(connections[j], shapes)]

SrcMissing(conn, shapes) == \A i \in DOMAIN shapes : shapes[i].id # conn.src

\* the id the error is to reference: the source if it is missing, else the target
MissingId(conn, shapes) == IF SrcMissing(conn, shapes) THEN conn.src ELSE conn.tgt

\* C6 as stated: whenever some connection's src or tgt is not the id of any
\* shape, validate_definition raises and the error references the missing id of
\* the first offending connection (src checked before tgt).
C6_AsStated ==
    (pc # "qc1" /\ HasDangling(CONNECTIONS, SHAPES)) =>
        /\ qc1.raised
        /\ qc1.error.names = {MissingId(FirstDangling(CONNECTIONS, SHAPES), SHAPES)}

\* C6, amended: whenever some connection's src or tgt is not the id of any
\* shape, validate_definition raises; when the shape ids are pairwise distinct
\* the error is the one of the first offending connection in definition order
\* and references its missing id, the source before the target (also for a
\* self-loop); when two shapes share an id the duplicate-id error is raised instead.
C6_DanglingFatal ==
    (pc # "qc1" /\ HasDangling(CONNECTIONS, SHAPES)) =>
        /\ qc1.raised
        /\ HasDuplicateIds(SHAPES) => qc1.error.kind = "Duplicate shape IDs"
        /\ ~HasDuplicateIds(SHAPES) =>
              LET conn == FirstDangling(CONNECTIONS, SHAPES) IN
              /\ qc1.error.names = {MissingId(conn, SHAPES)}
              /\ qc1.error.kind = IF SrcMissing(conn, SHAPES)
                                  THEN "Connection source not found"
                                  ELSE "Connection target not found"

\* distinct ids, a first connection that resolves, and a second one that is a
\* self-loop on a shape that does not exist
C6_Witness ==
    /\ pc = "aborted"
    /\ ~HasDuplicateIds(SHAPES)
    /\ Len(CONNECTIONS) = 2
    /\ ~IsDangling(CONNECTIONS[1], SHAPES)
    /\ CONNECTIONS[2].src = NoSuchId
    /\ CONNECTIONS[2].tgt = NoSuchId

\* empty or whitespace-only
IsBlank(t) == \A i \in DOMAIN t : t[i] = " "

\* the number of warnings of a kind that name id x
WarningsOf(ws, kind, x) ==
    Cardinality({i \in DOMAIN ws : ws[i].kind = kind /\ ws[i].id = x})

SelfLoopsOn(x) ==
    Cardinality({k \in DOMAIN CONNECTIONS : CONNECTIONS[k].src = x /\ CONNECTIONS[k].tgt = x})

BlankShapes(x) ==
    Cardinality({i \in DOMAIN SHAPES : SHAPES[i].id = x /\ IsBlank(SHAPES[i].text)})

\* shapes with id x whose preset is outside the recognised enumeration
OutsideEnumeration(x) ==
    Cardinality({i \in DOMAIN SHAPES : SHAPES[i].id = x /\ SHAPES[i].preset \notin VALID_PRESETS})

\* ... and is not the empty (or absent) preset
UnknownNonEmpty(x) ==
    Cardinality({i \in DOMAIN SHAPES :
                    /\ SHAPES[i].id = x
                    /\ SHAPES[i].preset # ""
                    /\ SHAPES[i].preset \notin VALID_PRESETS})

Accepted == ~HasDuplicateIds(SHAPES) /\ ~HasDangling(CONNECTIONS, SHAPES)

\* C7 as stated: for pairwise-distinct ids and resolving connections,
\* validate_definition returns exactly one warning per self-loop, one per shape
\* with an empty or whitespace-only label, and one per shape whose preset is
\* outside the recognised enumeration.
C7_AsStated ==
    (pc # "qc1" /\ Accepted) =>
        /\ ~qc1.raised
        /\ \A x \in AllKeys :
              /\ WarningsOf(qc1.warnings, "Self-loop", x) = SelfLoopsOn(x)
              /\ WarningsOf(qc1.warnings, "Empty text", x) = BlankShapes(x)
              /\ WarningsOf(qc1.warnings, "Unknown preset", x) = OutsideEnumeration(x)
        /\ \A i \in DOMAIN qc1.warnings :
              qc1.warnings[i].kind \in {"Self-loop", "Empty text", "Unknown preset"}

\* C7, amended: ... and one per shape whose preset is not empty (or absent) and
\* outside the recognised enumeration; a shape without a preset gets no warning.
C7_WarningsExact ==
    (pc # "qc1" /\ Accepted) =>
        /\ ~qc1.raised
        /\ \A x \in AllKeys :
              /\ WarningsOf(qc1.warnings, "Self-loop", x) = SelfLoopsOn(x)
              /\ WarningsOf(qc1.warnings, "Empty text", x) = BlankShapes(x)
              /\ WarningsOf(qc1.warnings, "Unknown preset", x) = UnknownNonEmpty(x)
        /\ \A i \in DOMAIN qc1.warnings :
              qc1.warnings[i].kind \in {"Self-loop", "Empty text", "Unknown preset"}

\* an accepted definition with two self-loops on one shape, a whitespace-only
\* label, an unrecognised preset and a shape without preset
C7_Witness ==
    /\ pc = "compute"
    /\ \E x \in Ids : SelfLoopsOn(x) = 2
    /\ \E i \in DOMAIN SHAPES : SHAPES[i].text = <<" ">> /\ SHAPES[i].preset = "star"
    /\ \E i \in DOMAIN SHAPES : SHAPES[i].preset = ""
    /\ Len(qc1.warnings) = 4

HasUnknownPresetWarning ==
    \E i \in DOMAIN qc1.warnings : qc1.warnings[i].kind = "Unknown preset"

\* C8: a shape whose preset is outside the recognised enumeration only produces
\* a warning at definition validation; the run is not aborted: compute_layout
\* still places every shape and the pipeline goes on.
C8_UnknownPresetStillPlaced ==
    (pc # "qc1" /\ ~qc1.raised /\ HasUnknownPresetWarning) =>
        /\ pc # "aborted"
        /\ pc # "compute" =>
              /\ layout.pc = "done"
              /\ Len(layout.placed_shapes) = Len(SHAPES)

HasDanglingConnector(L) ==
    \E k \in DOMAIN L.connectors :
        \/ \A i \in DOMAIN L.shapes : L.shapes[i].shape_id # L.connectors[k].src_shape_id
        \/ \A i \in DOMAIN L.shapes : L.shapes[i].shape_id # L.connectors[k].tgt_shape_id

\* some identifier occurs twice among shape ids, connector ids and label ids
HasRepeatedId(L) ==
    \/ \E i, j \in DOMAIN L.shapes : i # j /\ L.shapes[i].shape_id = L.shapes[j].shape_id
    \/ \E i, j \in DOMAIN L.connectors : i # j /\ L.connectors[i].conn_id = L.connectors[j].conn_id
    \/ \E i, j \in DOMAIN L.labels : i # j /\ L.labels[i].label_id = L.labels[j].label_id
    \/ \E i \in DOMAIN L.shapes, j \in DOMAIN L.connectors :
          L.shapes[i].shape_id = L.connectors[j].conn_id
    \/ \E i \in DOMAIN L.shapes, j \in DOMAIN L.labels :
          L.shapes[i].shape_id = L.labels[j].label_id
    \/ \E i \in DOMAIN L.connectors, j \in DOMAIN L.labels :
          L.connectors[i].conn_id = L.labels[j].label_id

AnchorsInRange(L) ==
    \A k \in DOMAIN L.connectors :
        L.connectors[k].src_idx \in 0..3 /\ L.connectors[k].tgt_idx \in 0..3

\* C9: validate raises whenever a connector's src_shape_id or tgt_shape_id is
\* not the shape_id of a placed shape, and whenever an identifier occurs more
\* than once among shape, connector and label ids; for a layout with neither
\* defect and anchor indices in 0..3 it returns its warning list, whatever
\* overlaps, out-of-bounds rects or inconsistent connector geometry there are.
C9_ValidateRaisesExactly ==
    vres # LayoutNotRun =>
        /\ (HasDanglingConnector(placed) \/ HasRepeatedId(placed)) => vres.raised
        /\ (~HasDanglingConnector(placed) /\ ~HasRepeatedId(placed) /\ AnchorsInRange(placed))
              => ~vres.raised

\* validate returned on a layout with overlapping, out-of-bounds shapes and a
\* connector whose rect does not fit, with warnings for each
C9_Witness ==
    /\ vres # LayoutNotRun
    /\ ~vres.raised
    /\ Len(placed.labels) = 1
    /\ \E i \in DOMAIN vres.warnings : vres.warnings[i].kind = "Shapes overlap"
    /\ \E i \in DOMAIN vres.warnings : vres.warnings[i].kind = "Out of bounds"
    /\ \E i \in DOMAIN vres.warnings : vres.warnings[i].kind = "bbox misaligned"
    /\ \E i \in DOMAIN vres.warnings : vres.warnings[i].kind = "Degenerate connector"

CheckpointRaised == qc1.raised \/ qc2.raised \/ qc3.raised

GenDone ==
    IF gen = "architecture"
    THEN result # NoCall /\ result.pc = "saved"
    ELSE layout.pc = "done"

\* every identifier handed out, in no particular order
GenIds ==
    IF gen = "architecture"
    THEN [i \in DOMAIN result.emitted |-> result.emitted[i].id]
    ELSE LayoutIds(layout)

GenBgId ==
    IF gen = "architecture"
    THEN result.emitted[CHOOSE i \in DOMAIN result.emitted :
                            result.emitted[i].kind = "background"].id
    ELSE layout.bg_id

\* the id of the shape defined by SHAPES[i]
GenShapeId(i) ==
    IF gen = "architecture"
    THEN result.emitted[CHOOSE k \in DOMAIN result.emitted :
                            /\ result.emitted[k].kind = "shape"
                            /\ result.emitted[k].name = SHAPES[i].id].id
    ELSE layout.placed_shapes[CHOOSE k \in DOMAIN layout.placed_shapes :
                                  layout.placed_shapes[k].key = SHAPES[i].id].shape_id

\* the ids of the connectors, in the order of CONNECTIONS
GenConnIds ==
    IF gen = "architecture"
    THEN LET cs == SelectSeq(result.emitted, LAMBDA e : e.kind = "connector")
         IN [k \in DOMAIN cs |-> cs[k].id]
    ELSE [k \in DOMAIN layout.placed_connectors |-> layout.placed_connectors[k].conn_id]

\* C11 as stated: in every generator the background holds the smallest id,
\* every shape id is smaller than every connector id, and the ids of shapes,
\* and of connectors, increase with definition order.
C11_AsStated ==
    GenDone =>
        /\ \A i \in DOMAIN GenIds : GenBgId <= GenIds[i]
        /\ \A i \in DOMAIN SHAPES, k \in DOMAIN GenConnIds : GenShapeId(i) < GenConnIds[k]
        /\ \A i, j \in DOMAIN SHAPES : i < j => GenShapeId(i) < GenShapeId(j)
        /\ \A k, m \in DOMAIN GenConnIds : k < m => GenConnIds[k] < GenConnIds[m]

\* position of a group key in the sorted order of the keys
LevelRank(g) == CHOOSE r \in DOMAIN LevelOrder : LevelOrder[r] = g

\* SHAPES[i] is placed before SHAPES[j]: by definition order, in org_chart.py
\* by level first
PlacedBefore(i, j) ==
    IF gen = "org_chart"
    THEN \/ LevelRank(SHAPES[i].group) < LevelRank(SHAPES[j].group)
         \/ SHAPES[i].group = SHAPES[j].group /\ i < j
    ELSE i < j

\* C11, amended: the identifiers are 2, 3, 4, ... handed out by one counter,
\* once per primitive, in the generator's own traversal order. Connector ids
\* increase with definition order; shape ids increase with definition order
\* (in org_chart.py level by level, in definition order within a level).
\* org_chart.py and architecture_diagram.py give the smallest id to the
\* background, flowchart.py gives it to the title and 3 to the background;
\* flowchart.py and org_chart.py number the shapes before the connectors,
\* architecture_diagram.py numbers the connectors before the shapes.
C11_IdsFollowTraversal ==
    GenDone =>
        /\ SetOf(GenIds) = IdStart..(IdStart + Len(GenIds) - 1)
        /\ \A i, j \in DOMAIN SHAPES : PlacedBefore(i, j) => GenShapeId(i) < GenShapeId(j)
        /\ \A k, m \in DOMAIN GenConnIds : k < m => GenConnIds[k] < GenConnIds[m]
        /\ gen = "flowchart" => (layout.title_id = IdStart /\ layout.bg_id = IdStart + 1)
        /\ gen = "org_chart" => (layout.bg_id = IdStart /\ layout.title_id = IdStart + 1)
        /\ gen = "architecture" => GenBgId = IdStart
        /\ \A i \in DOMAIN SHAPES, k \in DOMAIN GenConnIds :
              IF gen = "architecture"
              THEN GenConnIds[k] < GenShapeId(i)
              ELSE GenShapeId(i) < GenConnIds[k]

\* architecture_diagram.py ran to the end with two arrows and three components
C11_Witness ==
    /\ gen = "architecture"
    /\ GenDone
    /\ Len(SHAPES) = 3
    /\ Len(GenConnIds) = 2

InCanvasX(r) == r.x >= 0 /\ r.x + r.cx <= SLIDE_W
InCanvasY(r) == r.y >= 0 /\ r.y + r.cy <= SLIDE_H

\* the shapes of the definition that share the row (flowchart) or level
\* (org chart) of SHAPES[i]
RowOf(i) ==
    IF gen = "org_chart"
    THEN {j \in DOMAIN SHAPES : SHAPES[j].group = SHAPES[i].group}
    ELSE DOMAIN SHAPES

\* the width n*w + (n-1)*g the row of SHAPES[i] takes
RowWidth(i) ==
    LET n == Cardinality(RowOf(i))
        w == IF gen = "org_chart" THEN LEVEL_SW(SHAPES[i].group) ELSE 1371600
        g == IF gen = "org_chart" THEN LEVEL_GAP(SHAPES[i].group) ELSE GAP
    IN n * w + (n - 1) * g

\* the placed shape of SHAPES[i]
PlacedOf(i) ==
    layout.placed_shapes[CHOOSE k \in DOMAIN layout.placed_shapes :
                             layout.placed_shapes[k].key = SHAPES[i].id]

HasLayoutWarning(kind, key) ==
    \E k \in DOMAIN qc2.warnings : qc2.warnings[k].kind = kind /\ qc2.warnings[k].key = key

\* C12 as stated: for every accepted definition, whatever the number of shapes
\* per row or level, each placed rect lies within the canvas.
C12_AsStated ==
    (Accepted /\ layout.pc = "done") =>
        \A i \in DOMAIN SHAPES : InCanvasX(PlacedOf(i).rect) /\ InCanvasY(PlacedOf(i).rect)

\* C12, amended: for every accepted definition each placed rect lies within the
\* canvas vertically, and horizontally whenever its row (the whole flowchart,
\* one org-chart level) is not wider than the canvas, n*w + (n-1)*g <= SLIDE_W.
\* A wider row is still placed, centred, with its first and last shape partly
\* outside the canvas, and validate returns an 'Out of bounds' warning for
\* exactly the shapes that leave it.
C12_InCanvasWhenRowFits ==
    (Accepted /\ layout.pc = "done") =>
        \A i \in DOMAIN SHAPES :
            /\ InCanvasY(PlacedOf(i).rect)
            /\ RowWidth(i) <= SLIDE_W => InCanvasX(PlacedOf(i).rect)
            /\ RowWidth(i) > SLIDE_W =>
                  \E j, k \in RowOf(i) : PlacedOf(j).rect.x < 0
                                         /\ PlacedOf(k).rect.x + PlacedOf(k).rect.cx > SLIDE_W
            /\ pc = "render" =>
                  (HasLayoutWarning("Out of bounds", SHAPES[i].id)
                       <=> ~InCanvasX(PlacedOf(i).rect))

\* validate ran on an org chart with a level of five shapes, wider than the
\* canvas, and a level of one
C12_Witness ==
    /\ gen = "org_chart"
    /\ pc = "render"
    /\ Len(SHAPES) = 6
    /\ \E i \in DOMAIN SHAPES : Cardinality(RowOf(i)) = 5 /\ RowWidth(i) > SLIDE_W
    /\ \E i \in DOMAIN SHAPES : Cardinality(RowOf(i)) = 1
    /\ \E i \in DOMAIN SHAPES : HasLayoutWarning("Out of bounds", SHAPES[i].id)

\* the free space between two rects along x, and along y (negative: they
\* share points on that axis)
GapX(a, b) == Max(a.x - (b.x + b.cx), b.x - (a.x + a.cx))
GapY(a, b) == Max(a.y - (b.y + b.cy), b.y - (a.y + a.cy))

\* C13: for every accepted definition any two distinct placed shapes are
\* separated: shapes of one flowchart row by at least GAP, shapes of one
\* org-chart level by at least the level's gap, shapes of different org-chart
\* levels by at least V_GAP vertically; validate reports no 'Shapes overlap'
\* warning on the engine's output.
C13_ShapesSeparated ==
    (Accepted /\ layout.pc = "done") =>
        /\ \A i, j \in DOMAIN SHAPES :
              i # j =>
                 LET a == PlacedOf(i).rect
                     b == PlacedOf(j).rect
                 IN /\ ~rects_overlap(a, b)
                    /\ gen = "flowchart" => GapX(a, b) >= GAP
                    /\ (gen = "org_chart" /\ SHAPES[i].group = SHAPES[j].group)
                          => GapX(a, b) >= LEVEL_GAP(SHAPES[i].group)
                    /\ (gen = "org_chart" /\ SHAPES[i].group # SHAPES[j].group)
                          => GapY(a, b) >= V_GAP
        /\ pc = "render" =>
              \A k \in DOMAIN qc2.warnings : qc2.warnings[k].kind # "Shapes overlap"

\* validate ran on an org chart with three levels, two of them with two shapes
C13_Witness ==
    /\ gen = "org_chart"
    /\ pc = "render"
    /\ Len(sorted_levels(SHAPES)) = 3
    /\ Cardinality({g \in LEVEL_COLORS : Len(levels(SHAPES, g)) >= 2}) = 2

\* C14: center_row(n, w, g) centres the row as a block on the axis of length
\* SLIDE_W: item i (0-based) is at start + i*(w+g), where start is the floor
\* of (SLIDE_W - (n*w + (n-1)*g)) / 2, and the left margin of the first item
\* differs from the right margin of the last item by at most 1 unit. The
\* flowchart's inline row computation gives the same positions.
C14_CenteredAsBlock ==
    result # NoCall =>
        LET n == call.n
            w == call.sw
            g == call.gap
            free == SLIDE_W - (n * w + (n - 1) * g)
            start == result[1]
            right == SLIDE_W - (result[n] + w)
        IN /\ Len(result) = n
           /\ 2 * start <= free /\ free <= 2 * start + 1
           /\ \A i \in 1..n : result[i] = start + (i - 1) * (w + g)
           /\ right - start \in {-1, 0, 1}
           /\ (w = 1371600 /\ g = GAP) =>
                 \A i \in 1..n : xs([k \in 1..n |-> k], i - 1) = result[i]

\* a row of three items with an odd free width was centred
C14_Witness ==
    /\ result # NoCall
    /\ call.n = 3
    /\ (SLIDE_W - (3 * call.sw + 2 * call.gap)) % 2 = 1
    /\ SLIDE_W - (result[3] + call.sw) = result[1] + 1

\* the sizes tried: max_size, max_size - 100, ... not below min_size
FontCandidates(min_size, max_size) ==
    {sz \in min_size..max_size : (max_size - sz) % 100 = 0}

\* the estimated width and the line height at size sz are within the usable
\* interior of the box
FitsBox(text, cx, cy, sz) ==
    /\ WidthFits(text, sz, cx - 182880)
    /\ HeightFits(sz, cy - 91440)

C15_Returned ==
    result # NoCall =>
        LET sz == result[1]
            fitting == {c \in FontCandidates(call.range[1], call.range[2]) :
                           FitsBox(call.text, call.cx, call.cy, c)}
        IN IF fitting = {}
           THEN sz = call.range[1]
           ELSE /\ sz \in fitting
                /\ \A c \in fitting : c <= sz

\* C15: estimate_font_size, for non-empty text and a box (cx, cy), returns the
\* largest of max_size, max_size - 100, ... (not below min_size) at which the
\* estimated width is at most cx - 182880 and the line height at most
\* cy - 91440; it returns min_size when no candidate fits; the call leaves
\* the box as it was.
C15_LargestFittingSize ==
    /\ []C15_Returned
    /\ [][call'.cx = call.cx /\ call'.cy = call.cy]_vars

\* a size strictly between min_size and max_size was returned: a larger
\* candidate did not fit and a smaller one would have
C15_Witness ==
    /\ result # NoCall
    /\ result[1] > call.range[1]
    /\ result[1] < call.range[2]
    /\ FitsBox(call.text, call.cx, call.cy, call.range[1])
    /\ ~FitsBox(call.text, call.cx, call.cy, call.range[2])

\* the label is too long for the box at every size, and min_size was returned
C15_WitnessNoFit ==
    /\ result # NoCall
    /\ call.cx = 200000
    /\ Len(call.text) = MaxText
    /\ result[1] = call.range[1]

\* the text lines of the placed shape of SHAPES[i], each with its assigned size
LinesOf(i) ==
    LET ps == PlacedOf(i)
    IN IF gen = "org_chart"
       THEN {<<ps.text, ps.font_size>>} \cup
            (IF ps.text_line2 # <<>> THEN {<<ps.text_line2, ps.font_size2>>} ELSE {})
       ELSE {<<ps.text, ps.font_size>>}

\* a line of the shape is wider than the usable width at the minimum size
TooWideAtMin(i) ==
    \E l \in LinesOf(i) :
        l[1] # <<>> /\ ~WidthFits(l[1], 800, PlacedOf(i).rect.cx - 182880)

\* C16: for a shape placed by compute_layout, validate returns a 'Text
\* overflow' warning naming the shape if and only if its label is too wide for
\* the box even at the minimum font size; when the label fits at the minimum
\* size, the assigned size keeps the estimated width within the usable width;
\* validate raises in neither case.
C16_FontFitAgreesWithValidate ==
    (gen # "architecture" /\ Accepted /\ layout.pc = "done") =>
        /\ \A i \in DOMAIN SHAPES :
              ~TooWideAtMin(i) =>
                 \A l \in LinesOf(i) :
                    l[1] = <<>> \/ WidthFits(l[1], l[2], PlacedOf(i).rect.cx - 182880)
        /\ pc \notin {"qc1", "compute", "qc2"} =>
              /\ ~qc2.raised
              /\ pc = "render"
              /\ \A i \in DOMAIN SHAPES :
                    HasLayoutWarning("Text overflow", SHAPES[i].id) <=> TooWideAtMin(i)

\* validate returned; one shape overflows at the minimum size and is warned
\* of, another was given a size below the maximum at which it fits and is not
C16_Witness ==
    /\ gen = "org_chart"
    /\ pc = "render"
    /\ \E i, j \in DOMAIN SHAPES :
          /\ TooWideAtMin(i)
          /\ HasLayoutWarning("Text overflow", SHAPES[i].id)
          /\ ~TooWideAtMin(j)
          /\ PlacedOf(j).font_size \in 801..1099
          /\ ~HasLayoutWarning("Text overflow", SHAPES[j].id)

\* the same for a flowchart: an overflowing label next to a fitting one
C16_WitnessFlowchart ==
    /\ gen = "flowchart"
    /\ pc = "render"
    /\ \E i, j \in DOMAIN SHAPES :
          /\ TooWideAtMin(i)
          /\ HasLayoutWarning("Text overflow", SHAPES[i].id)
          /\ ~TooWideAtMin(j)
          /\ ~HasLayoutWarning("Text overflow", SHAPES[j].id)

\* the anchor points the connector refers to
AnchorPoints(c) ==
    <<connection_point(shape_by_id(placed.shapes, c.src_shape_id).rect, c.src_idx),
      connection_point(shape_by_id(placed.shapes, c.tgt_shape_id).rect, c.tgt_idx)>>

FlipHDiffers(c) == c.flip_h # (AnchorPoints(c)[2][1] < AnchorPoints(c)[1][1])

FlipVDiffers(c) == c.flip_v # (AnchorPoints(c)[2][2] < AnchorPoints(c)[1][2])

\* the rect is more than 1 unit off the box spanned by the anchor points
RectDiffers(c) ==
    LET sp == AnchorPoints(c)[1]
        tp == AnchorPoints(c)[2]
        left == IF sp[1] < tp[1] THEN sp[1] ELSE tp[1]
        top == IF sp[2] < tp[2] THEN sp[2] ELSE tp[2]
        wide == IF sp[1] = tp[1] THEN 1 ELSE Abs(tp[1] - sp[1])
        high == IF sp[2] = tp[2] THEN 1 ELSE Abs(tp[2] - sp[2])
    IN \/ Abs(c.rect.x - left) > 1
       \/ Abs(c.rect.y - top) > 1
       \/ Abs(c.rect.cx - wide) > 1
       \/ Abs(c.rect.cy - high) > 1

Flagged(kind, c) ==
    \E k \in DOMAIN vres.warnings :
        vres.warnings[k].kind = kind /\ vres.warnings[k].id = c.conn_id

\* C17: validate flags, with a warning naming the conn_id, every connector
\* whose flip_h or flip_v differs from the value recomputed from the anchor
\* points of the shapes it refers to, and every connector whose rect is more
\* than 1 unit off the recomputed box on x, y, cx or cy; it flags no connector
\* that agrees with the recomputation (one with a positive width and height
\* gets no warning at all), and raises for none of them.
C17_InconsistentConnectorsFlagged ==
    vres # LayoutNotRun =>
        /\ ~vres.raised
        /\ \A k \in DOMAIN placed.connectors :
              LET c == placed.connectors[k]
              IN /\ FlipHDiffers(c) <=> Flagged("flip_h", c)
                 /\ FlipVDiffers(c) <=> Flagged("flip_v", c)
                 /\ RectDiffers(c) <=> Flagged("bbox misaligned", c)
                 /\ (~FlipHDiffers(c) /\ ~FlipVDiffers(c) /\ ~RectDiffers(c)
                        /\ c.rect.cx > 0 /\ c.rect.cy > 0) =>
                       \A j \in DOMAIN vres.warnings : vres.warnings[j].id # c.conn_id

\* validate returned for a layout in which one connector has its flip_h
\* inverted and is flagged, and another, 1 unit off on every field, is not
C17_Witness ==
    /\ vres # LayoutNotRun
    /\ ~vres.raised
    /\ \E i, j \in DOMAIN placed.connectors :
          /\ FlipHDiffers(placed.connectors[i])
          /\ Flagged("flip_h", placed.connectors[i])
          /\ placed.connectors[j].rect # EngineConnector(gen,
                 <<placed.connectors[j].src_shape_id,
                   placed.connectors[j].tgt_shape_id>>).rect
          /\ \A k \in DOMAIN vres.warnings :
                vres.warnings[k].id # placed.connectors[j].conn_id

\* a connector displaced by 2 units is flagged as misaligned, and only as that
C17_WitnessRect ==
    /\ vres # LayoutNotRun
    /\ \E i \in DOMAIN placed.connectors :
          /\ RectDiffers(placed.connectors[i])
          /\ Flagged("bbox misaligned", placed.connectors[i])
          /\ ~Flagged("flip_h", placed.connectors[i])
          /\ ~Flagged("flip_v", placed.connectors[i])

\* the result of the call is there and is a path
Routed == result # NoCall /\ ~result.raised

\* the interior waypoints of the call (1-based positions)
Interior == {i \in DOMAIN call.waypoints : 1 < i /\ i < Len(call.waypoints)}

\* the length of the segment from waypoint i to waypoint i + 1: the sum of the
\* coordinate changes, one of which is 0 on a horizontal or vertical segment
SegLen(i) ==
    Abs(call.waypoints[i + 1][1] - call.waypoints[i][1])
    + Abs(call.waypoints[i + 1][2] - call.waypoints[i][2])

\* the radius of the arc drawn at interior waypoint i
ArcRadiusAt(i) == result.path[2 * i - 1].r

C18_WitnessConfigured ==
    /\ Routed
    /\ \E i \in Interior :
          /\ SegLen(i - 1) > 2 * call.radius
          /\ SegLen(i) > 2 * call.radius
          /\ call.radius > 0
          /\ ArcRadiusAt(i) = call.radius

\* the (incoming, outgoing) direction pair at interior waypoint i has no
\* entry in the arc table
OffTable(i) ==
    ARC(direction(call.waypoints[i - 1], call.waypoints[i]),
        direction(call.waypoints[i], call.waypoints[i + 1])) = <<>>

\* the error names the connector the call was for, by its id or its name
ErrorIdentifiesConnector ==
    \E k \in DOMAIN result.error.args :
        result.error.args[k] = call.name \/ result.error.args[k] = ToString(call.sid)

\* C19: when the direction pair at an interior waypoint is not one of the 8
\* perpendicular-turn pairs of the arc table (a U-turn, a straight
\* continuation), build_routed_connector_xml aborts with an error that
\* identifies the offending connector and returns no path.
C19_OffTableTurnAbortsNamingConnector ==
    (result # NoCall /\ \E i \in Interior : OffTable(i)) =>
        /\ result.raised
        /\ result.path = <<>>
        /\ ErrorIdentifiesConnector

\* what holds of the claim: the call raises KeyError, whose only argument is
\* the direction pair, and returns nothing
C19_OffTableTurnRaisesKeyError ==
    (result # NoCall /\ \E i \in Interior : OffTable(i)) =>
        /\ result.raised
        /\ result.path = <<>>
        /\ result.error.kind = "KeyError"
        /\ \E i \in Interior :
              /\ OffTable(i)
              /\ result.error.args = <<direction(call.waypoints[i - 1], call.waypoints[i]),
                                       direction(call.waypoints[i], call.waypoints[i + 1])>>

\* a U-turn, Right then Left, was given and the call raised
C19_Witness ==
    /\ result # NoCall
    /\ result.raised
    /\ result.error.args = <<"R", "L">>

\* the segment from waypoint i to waypoint i + 1 has length zero
ZeroLength(i) == call.waypoints[i] = call.waypoints[i + 1]

\* both coordinates change on the segment from waypoint i to waypoint i + 1
Diagonal(i) ==
    /\ call.waypoints[i][1] # call.waypoints[i + 1][1]
    /\ call.waypoints[i][2] # call.waypoints[i + 1][2]

Segments == {i \in DOMAIN call.waypoints : i < Len(call.waypoints)}

\* C20: the router rejects, with an error, every waypoint list that contains a
\* zero-length or a diagonal segment; it assigns such a segment none of the
\* directions Right, Left, Down, Up and emits no path for it.
C20_DegenerateSegmentsRejected ==
    (result # NoCall /\ \E i \in Segments : ZeroLength(i) \/ Diagonal(i)) =>
        /\ result.raised
        /\ result.path = <<>>
        /\ \A i \in Segments :
              (ZeroLength(i) \/ Diagonal(i)) =>
                 direction(call.waypoints[i], call.waypoints[i + 1])
                    \notin {"R", "L", "D", "U"}

\* a list whose first segment is diagonal was given; the segment was taken as
\* one going Right or Left, the corner after it was rounded, a path came back
C20_DiagonalRouted ==
    /\ Routed
    /\ Len(call.waypoints) = 3
    /\ Diagonal(1)
    /\ direction(call.waypoints[1], call.waypoints[2]) \in {"R", "L"}
    /\ result.path[3].cmd = "arcTo"

\* a list whose first segment has length zero was given; the segment was taken
\* as one going Up, and a path came back
C20_ZeroLengthRouted ==
    /\ Routed
    /\ Len(call.waypoints) = 3
    /\ ZeroLength(1)
    /\ direction(call.waypoints[1], call.waypoints[2]) = "U"
    /\ result.path[3].cmd = "arcTo"

\* render_all has run in the pipeline
Rendered == pc \in {"qc3", "save", "done"}

\* the ids read back from the emitted elements, in document order
TreeIds == [k \in DOMAIN tree |-> ParseInt(tree[k].id)]

\* the ids compute_layout allocated: background, title, connectors, shapes, labels
AllocatedIds ==
    <<layout.bg_id, layout.title_id>>
    \o [i \in DOMAIN layout.placed_connectors |-> layout.placed_connectors[i].conn_id]
    \o [i \in DOMAIN layout.placed_shapes |-> layout.placed_shapes[i].shape_id]
    \o [i \in DOMAIN layout.placed_labels |-> layout.placed_labels[i].label_id]

\* C21: render_all drops and duplicates nothing: it emits 1 background, 1 title,
\* one element per placed connector, per placed shape and per placed label,
\* each with the identifier compute_layout allocated; validate_render, given
\* that count, reports no count mismatch and does not raise on duplicate ids.
C21_RenderEmitsEveryPrimitiveOnce ==
    Rendered =>
        /\ Len(tree) = 1 + 1 + Len(layout.placed_connectors)
                       + Len(layout.placed_shapes) + Len(layout.placed_labels)
        /\ Cardinality({k \in DOMAIN tree : tree[k].tag = "cxnSp"})
              = Len(layout.placed_connectors)
        /\ \A id \in SetOf(TreeIds) \cup SetOf(AllocatedIds) :
              Count(TreeIds, id) = 1 /\ Count(AllocatedIds, id) = 1
        /\ pc # "qc3" =>
              /\ ~qc3.raised
              /\ qc3.actual = Len(tree)
              /\ \A k \in DOMAIN qc3.warnings :
                    qc3.warnings[k].kind # "Element count mismatch"

\* a layout with a shape, a connector and a label was rendered and passed
\* validate_render
C21_Witness ==
    /\ pc = "save"
    /\ Len(layout.placed_shapes) >= 2
    /\ Len(layout.placed_connectors) >= 1
    /\ Len(layout.placed_labels) >= 1
    /\ Len(tree) >= 6
    /\ ~qc3.raised

\* validate_render has returned or raised
TreeChecked == qc3 # RenderNotRun

\* an element emitted for a placed shape: a shape-tier p:sp that is no label
IsEmittedShape(elem) ==
    IsShapeTier(elem) /\ ~startswith(elem.name, Chars("Label "))

\* the references of the connectors of the tree, as <<element index, id>>
ConnRefs ==
    UNION {{<<k, ParseInt(tree[k].cxn[j])>> : j \in DOMAIN tree[k].cxn} : k \in DOMAIN tree}

ReportedOrphan(id) ==
    \E k \in DOMAIN qc3.warnings :
        qc3.warnings[k].kind = "Orphaned reference" /\ qc3.warnings[k].id = id

\* C22: validate_render reports as orphaned every stCxn/endCxn reference whose
\* id is not the identifier of an emitted shape, including one that equals the
\* id of the background, the title, a label or another connector, and reports
\* no reference that resolves to an emitted shape.
C22_ReferencesResolveToShapes ==
    (TreeChecked /\ ~qc3.raised) =>
        \A ref \in ConnRefs :
            ReportedOrphan(ref[2]) <=>
               ~\E k \in DOMAIN tree :
                   IsEmittedShape(tree[k]) /\ ParseInt(tree[k].id) = ref[2]

\* what validate_render does: a reference is reported exactly when its id is
\* the id of no emitted element at all
C22_ReferencesResolveToElements ==
    (TreeChecked /\ ~qc3.raised) =>
        \A ref \in ConnRefs :
            ReportedOrphan(ref[2]) <=>
               ~\E k \in DOMAIN tree : ParseInt(tree[k].id) = ref[2]

\* a connector refers to the id of the background, and no orphan is reported
C22_BackgroundReferencePasses ==
    /\ TreeChecked
    /\ \E k, b \in DOMAIN tree :
          /\ tree[k].tag = "cxnSp"
          /\ tree[b].name = Chars("Background")
          /\ tree[k].cxn[1] = tree[b].id
          /\ tree[k].cxn[2] = tree[b].id
    /\ qc3.warnings = <<>>

\* the positions of the connector elements of the tree
ConnectorPositions == {k \in DOMAIN tree : tree[k].tag = "cxnSp"}

\* the positions of the sp elements named neither Background, Title, TitleBar
\* nor "Lane ..."
ShapeTierPositions ==
    {k \in DOMAIN tree :
        /\ tree[k].tag = "sp"
        /\ tree[k].name # Chars("Background")
        /\ tree[k].name # Chars("Title")
        /\ tree[k].name # Chars("TitleBar")
        /\ ~(Len(tree[k].name) >= 5 /\ SubSeq(tree[k].name, 1, 5) = Chars("Lane "))}

ZOrderWarned ==
    \E k \in DOMAIN qc3.warnings : qc3.warnings[k].kind = "Z-order issue"

\* C24: validate_render reports a z-order warning exactly when some shape-tier
\* element appears in the tree before the last connector element; with no
\* connector or no shape-tier element it reports none; the defect is a warning
\* and validate_render does not raise for it.
C24_ZOrderWarningExact ==
    TreeChecked =>
        /\ ~qc3.raised
        /\ ZOrderWarned <=>
              \E sh \in ShapeTierPositions :
                 \E c \in ConnectorPositions :
                    sh < c /\ \A d \in ConnectorPositions : d <= c
        /\ (ConnectorPositions = {} \/ ShapeTierPositions = {}) => ~ZOrderWarned

\* a shape was emitted before the last connector, after a lane, and the
\* warning was returned
C24_Witness ==
    /\ TreeChecked
    /\ ~qc3.raised
    /\ ZOrderWarned
    /\ \E l, sh, c \in DOMAIN tree :
          /\ l < sh /\ sh < c
          /\ startswith(tree[l].name, Chars("Lane "))
          /\ sh \in ShapeTierPositions
          /\ c \in ConnectorPositions

\* lanes, title bar and background before the connectors, shapes after: no
\* warning
C24_WitnessNoWarning ==
    /\ TreeChecked
    /\ ~ZOrderWarned
    /\ \E l, c, sh \in DOMAIN tree :
          /\ l < c /\ c < sh
          /\ tree[l].name \in {Chars("TitleBar"), Chars("Lane ") \o <<"1">>}
          /\ c \in ConnectorPositions
          /\ sh \in ShapeTierPositions

\* main() of hub_spoke_diagram.py has run
HubPlaced == gen = "hub_spoke" /\ result # NoCall

Square(v) == MulBits(NatBits(Abs(v)), NatBits(Abs(v)))

\* the squared distance of a spoke centre from (CENTER_X, CENTER_Y)
DistSquared(p) == AddBits(Square(p.cx - CENTER_X), Square(p.cy - CENTER_Y))

\* | distance - radius | <= tol
WithinOfRadius(p, radius, tol) ==
    /\ radius > tol => LeqBits(Square(radius - tol), DistSquared(p))
    /\ LeqBits(DistSquared(p), Square(radius + tol))

\* C25: spoke i is placed at the angle -90 + i * (360 / n), so that the first
\* spoke is straight above the hub; the distance from the hub centre to every
\* spoke centre is the configured radius within 1 unit
C25_SpokesAtRadius ==
    HubPlaced =>
        LET pos == result.spoke_positions
        IN /\ \A k \in DOMAIN pos : pos[k].angle = -90 + ((k - 1) * (360 \div call.n))
           /\ pos[1].cx = CENTER_X
           /\ pos[1].cy = CENTER_Y - call.radius
           /\ \A k \in DOMAIN pos : WithinOfRadius(pos[k], call.radius, 1)

\* C25 (what holds): the first spoke is straight above the hub and every spoke
\* centre is within 2 units of the configured radius
C25_SpokesNearRadius ==
    HubPlaced =>
        LET pos == result.spoke_positions
        IN /\ pos[1].cx = CENTER_X
           /\ pos[1].cy = CENTER_Y - call.radius
           /\ \A k \in DOMAIN pos : WithinOfRadius(pos[k], call.radius, 2)

\* C25: the shipped diagram, six spokes at RADIUS, has been placed with its
\* sixth spoke at (-1583788, -914401) from the hub centre
C25_ShippedSixthSpoke ==
    /\ HubPlaced
    /\ call.n = 6
    /\ call.radius = RADIUS
    /\ result.spoke_positions[6].cx - CENTER_X = -1583788
    /\ result.spoke_positions[6].cy - CENTER_Y = -914401
    /\ ~WithinOfRadius(result.spoke_positions[6], RADIUS, 1)

\* one arrow of m365 main() has been routed
WayRouted == gen = "m365" /\ result # NoCall

\* the segment from point i to point i + 1 of w is horizontal or vertical and
\* not of length zero
AxisAligned(w, i) ==
    (w[i][1] = w[i + 1][1]) # (w[i][2] = w[i + 1][2])

\* the turn at the interior point i of w is one of the arc table
Perpendicular(w, i) ==
    ARC(direction(w[i - 1], w[i]), direction(w[i], w[i + 1])) # <<>>

\* C30: for any two distinct components with positive-size rects the list
\* compute_waypoints returns has only axis-aligned segments of non-zero length
\* and only perpendicular turns, and build_routed_connector_xml does not fail
\* on it
C30_WaypointsMeetRouterPrecondition ==
    WayRouted =>
        LET w == result.waypoints
        IN /\ \A i \in 1..(Len(w) - 1) : AxisAligned(w, i)
           /\ \A i \in 2..(Len(w) - 1) : Perpendicular(w, i)
           /\ ~result.xml.raised

\* teams above agent with their centres on one vertical: the Z-shape has a
\* middle segment of length zero and the router raised KeyError ('D', 'U')
C30_AlignedZRouteRaises ==
    /\ WayRouted
    /\ call.src = "teams"
    /\ call.tgt = "agent"
    /\ call.sp.cx > 0 /\ call.sp.cy > 0 /\ call.tp.cx > 0 /\ call.tp.cy > 0
    /\ _ccx(call.sp) = _ccx(call.tp)
    /\ call.sp.y + call.sp.cy < call.tp.y
    /\ result.waypoints[2] = result.waypoints[3]
    /\ result.xml.raised
    /\ result.xml.error.kind = "KeyError"
    /\ result.xml.error.args = <<"D", "U">>

\* agent and gen_answers side by side: the two-point list is one diagonal
\* segment, which the router draws
C30_DiagonalStraightRoute ==
    /\ WayRouted
    /\ call.src = "agent"
    /\ call.tgt = "gen_answers"
    /\ Len(result.waypoints) = 2
    /\ ~AxisAligned(result.waypoints, 1)
    /\ result.waypoints[1] # result.waypoints[2]
    /\ ~result.xml.raised

\* C30 (what holds): the router fails on a list of compute_waypoints only
\* with KeyError, and only at a turn that is not perpendicular
C30_RouterFailsOnlyOffTable ==
    (WayRouted /\ result.xml.raised) =>
        /\ result.xml.error.kind = "KeyError"
        /\ \E i \in 2..(Len(result.waypoints) - 1) : ~Perpendicular(result.waypoints, i)

\* a generator has run
Generated == result # NoCall /\ DOMAIN result = {"raised", "paint"}

\* the paint tier of a kind of element, back to front
Tier(kind) ==
    CASE kind = "background" -> 0
      [] kind = "lane" -> 1
      [] kind = "title" -> 2
      [] kind = "connector" -> 3
      [] kind = "shape" -> 4
      [] OTHER -> 5

\* the elements were emitted back to front by tier
BackToFront(paint) ==
    /\ paint # <<>> => paint[1] = "background"
    /\ \A i, j \in DOMAIN paint : i < j => Tier(paint[i]) <= Tier(paint[j])

\* C23: in the element sequence every generator emits, the order is
\* background, lane/region backgrounds, title, all connectors, all shapes, all
\* labels/legend: no connector after a shape, no label before a shape
C23_PaintOrderAsStated == Generated => BackToFront(result.paint)

\* the labels of paint up to position i
LabelsUpTo(paint, i) == Cardinality({k \in 1..i : paint[k] = "label"})

\* C23 (amended): every generator but the M365 one emits background, lanes,
\* title, connectors, shapes, labels/legend in this order.  The M365 generator
\* emits background, regions, title bar and connectors in this order, then its
\* 14 connector labels, then the component shapes, then the annotations and
\* icons: no connector follows a shape or a label, and the labels that precede
\* a shape are the connector labels.
C23_PaintOrder ==
    Generated =>
        IF gen # "m365" THEN BackToFront(result.paint)
        ELSE LET paint == result.paint
             IN /\ paint # <<>> => paint[1] = "background"
                /\ \A i, j \in DOMAIN paint :
                      i < j =>
                         \/ Tier(paint[i]) <= Tier(paint[j])
                         \/ /\ paint[i] = "label"
                            /\ paint[j] = "shape"
                            /\ LabelsUpTo(paint, i) <= ManualLabels
                /\ \A i, j \in DOMAIN paint :
                      (paint[i] = "label" /\ paint[j] = "shape"
                       /\ LabelsUpTo(paint, i) <= ManualLabels) => i < j

\* the M365 generator ran to the end with connectors, components and icons:
\* a connector label was emitted before a component shape
C23_Witness ==
    /\ Generated
    /\ gen = "m365"
    /\ ~result.raised
    /\ \E i, j, k, l \in DOMAIN result.paint :
          /\ i < j /\ j < k /\ k < l
          /\ result.paint[i] = "connector"
          /\ result.paint[j] = "label"
          /\ result.paint[k] = "shape"
          /\ result.paint[l] = "icon"

\* the flowchart generator ran to the end with a connector, shapes and a label
C23_WitnessFlowchart ==
    /\ Generated
    /\ gen = "flowchart"
    /\ \E i, j, k \in DOMAIN result.paint :
          /\ result.paint[i] = "connector"
          /\ result.paint[j] = "shape"
          /\ result.paint[k] = "label"

\* each of the other generators ran to the end with connectors and shapes
C23_WitnessOrgChart ==
    Generated /\ gen = "org_chart" /\ "connector" \in SetOf(result.paint)

C23_WitnessArchitecture ==
    Generated /\ gen = "architecture" /\ ~result.raised
    /\ "connector" \in SetOf(result.paint) /\ "legend" \in SetOf(result.paint)

C23_WitnessBranching ==
    Generated /\ gen = "branching" /\ ~result.raised /\ Len(result.paint) = 2 + 7 + 7 + 4

C23_WitnessHubSpoke ==
    Generated /\ gen = "hub_spoke" /\ ~result.raised
    /\ "connector" \in SetOf(result.paint) /\ "shape" \in SetOf(result.paint)

\* compute_layout has returned the layout of a flowchart row
RowPlaced == gen = "flowchart" /\ result # NoCall /\ result.pc = "done"

\* the placed shape a connector end refers to
RowShape(id) ==
    LET ps == result.placed_shapes
    IN ps[CHOOSE k \in DOMAIN ps : ps[k].shape_id = id]

\* the y of the middle of a rect's side
MiddleY(r) == r.y + (r.cy \div 2)

\* C26: in the single-row flowchart layout, for every shape list over the
\* supported presets and every connection between two placed shapes, the
\* source's right-middle anchor and the target's left-middle anchor have the
\* same y, so the connector is one straight horizontal segment (rect height
\* 1, the clamp value, and flip_v false); the shapes stand left to right in
\* definition order with equal gaps.
C26_RowConnectorsStraight ==
    RowPlaced =>
        LET ps == result.placed_shapes
            cs == result.placed_connectors
        IN /\ Len(ps) = Len(SHAPES)
           /\ Len(cs) = Len(CONNECTIONS)
           /\ \A k \in DOMAIN ps : ps[k].key = SHAPES[k].id
           /\ \A k \in DOMAIN cs :
                 LET s == RowShape(cs[k].src_shape_id).rect
                     t == RowShape(cs[k].tgt_shape_id).rect
                 IN /\ RowShape(cs[k].src_shape_id).key = CONNECTIONS[k].src
                    /\ RowShape(cs[k].tgt_shape_id).key = CONNECTIONS[k].tgt
                    /\ MiddleY(s) = MiddleY(t)
                    /\ cs[k].rect.y = MiddleY(s)
                    /\ cs[k].rect.cy = 1
                    /\ ~cs[k].flip_v
                    /\ cs[k].src_idx = 1
                    /\ cs[k].tgt_idx = 3
           /\ \A k \in 1..(Len(ps) - 1) :
                 ps[k + 1].rect.x - (ps[k].rect.x + ps[k].rect.cx) = GAP

\* a row of three shapes of three different heights was placed, with a
\* connector between two shapes of different height
C26_Witness ==
    /\ RowPlaced
    /\ Len(result.placed_shapes) = 3
    /\ Cardinality({result.placed_shapes[k].rect.cy : k \in 1..3}) = 3
    /\ Len(result.placed_connectors) = 1
    /\ RowShape(result.placed_connectors[1].src_shape_id).rect.cy
          # RowShape(result.placed_connectors[1].tgt_shape_id).rect.cy

\* the connector runs from a shape to one on its left
C26_WitnessBackward ==
    /\ RowPlaced
    /\ Len(result.placed_connectors) = 1
    /\ result.placed_connectors[1].flip_h
    /\ result.placed_connectors[1].src_shape_id # result.placed_connectors[1].tgt_shape_id

\* validate has returned for connectors of any extents
ExtentsChecked == vres # LayoutNotRun /\ ~vres.raised

\* the number of 'Degenerate connector' warnings that name connector c
DegenerateWarnings(c) ==
    Cardinality({k \in DOMAIN vres.warnings :
                    /\ vres.warnings[k].kind = "Degenerate connector"
                    /\ vres.warnings[k].id = c.conn_id})

\* C27: validate emits a 'Degenerate connector' warning for a connector
\* exactly when its bounding box is degenerate in both dimensions (neither
\* width nor height is positive); a connector with one positive extent is
\* not flagged
C27_FlaggedWhenBothExtentsDegenerate ==
    ExtentsChecked =>
        \A k \in DOMAIN placed.connectors :
            LET c == placed.connectors[k]
            IN DegenerateWarnings(c) > 0 <=> (c.rect.cx <= 0 /\ c.rect.cy <= 0)

\* C27 (amended): validate emits one 'Degenerate connector' warning for a
\* connector exactly when its bounding box is degenerate in at least one
\* dimension (its width or its height is not positive); a connector with only
\* one positive extent is flagged, one with two positive extents is not
C27_FlaggedWhenAnExtentDegenerate ==
    /\ vres # LayoutNotRun => ~vres.raised
    /\ ExtentsChecked =>
          \A k \in DOMAIN placed.connectors :
              LET c == placed.connectors[k]
              IN DegenerateWarnings(c) =
                    IF c.rect.cx <= 0 \/ c.rect.cy <= 0 THEN 1 ELSE 0

\* a connector of positive width and height zero was flagged, next to one of
\* positive width and height that was not
C27_Witness ==
    /\ ExtentsChecked
    /\ \E k, l \in DOMAIN placed.connectors :
          /\ placed.connectors[k].rect.cx > 0
          /\ placed.connectors[k].rect.cy = 0
          /\ DegenerateWarnings(placed.connectors[k]) = 1
          /\ placed.connectors[l].rect.cx > 0
          /\ placed.connectors[l].rect.cy > 0
          /\ DegenerateWarnings(placed.connectors[l]) = 0

\* the unit vector of a direction, y pointing down
Unit(d) ==
    CASE d = "R" -> <<1, 0>>
      [] d = "L" -> <<-1, 0>>
      [] d = "D" -> <<0, 1>>
      [] OTHER -> <<0, -1>>

\* the point of the unit circle at an angle given in 60000ths of a degree,
\* clockwise from the +x axis with y pointing down; a multiple of 90 degrees
OnCircle(ang) ==
    LET a == ang % 21600000
    IN CASE a = 0 -> <<1, 0>>
         [] a = 5400000 -> <<0, 1>>
         [] a = 10800000 -> <<-1, 0>>
         [] a = 16200000 -> <<0, -1>>
         [] OTHER -> <<>>

\* where arcTo(wR = hR = r, stAng, swAng) ends when the pen is at p: p is the
\* point of the circle at stAng, the end is the point at stAng + swAng
ArcEnd(p, r, ang) ==
    LET s == OnCircle(ang[1])
        e == OnCircle(ang[1] + ang[2])
    IN <<p[1] - (r * s[1]) + (r * e[1]), p[2] - (r * s[2]) + (r * e[2])>>

\* the waypoints of the call relative to the bounding box
RelPt(i) ==
    <<call.waypoints[i][1] - result.off[1], call.waypoints[i][2] - result.off[2]>>

\* the interior waypoint i is a perpendicular turn between two axis-aligned
\* segments of non-zero length
QuarterTurn(i) ==
    /\ AxisAligned(call.waypoints, i - 1)
    /\ AxisAligned(call.waypoints, i)
    /\ Perpendicular(call.waypoints, i)

\* C28: at every perpendicular turn, for each of the 8 entries of the arc
\* table and every radius r >= 0, the arc of radius r that starts at the
\* waypoint minus r along the incoming direction, with the entry's start angle
\* and sweep, ends exactly at the waypoint plus r along the outgoing direction;
\* every sweep is +90 or -90 degrees
C28_ArcJoinsTheSegments ==
    (gen = "architecture" /\ Routed) =>
        \A i \in Interior :
            QuarterTurn(i) =>
               LET din == Unit(direction(call.waypoints[i - 1], call.waypoints[i]))
                   dout == Unit(direction(call.waypoints[i], call.waypoints[i + 1]))
                   ln == result.path[2 * i - 2]
                   arc == result.path[2 * i - 1]
                   w == RelPt(i)
               IN /\ ln.cmd = "lnTo"
                  /\ arc.cmd = "arcTo"
                  /\ arc.r >= 0
                  /\ ln.pt = <<w[1] - (arc.r * din[1]), w[2] - (arc.r * din[2])>>
                  /\ arc.ang[2] \in {5400000, -5400000}
                  /\ OnCircle(arc.ang[1]) # <<>>
                  /\ ArcEnd(ln.pt, arc.r, arc.ang)
                        = <<w[1] + (arc.r * dout[1]), w[2] + (arc.r * dout[2])>>

\* the direction pairs of the perpendicular turns routed with an arc of
\* radius > 0
TurnsRouted ==
    {<<direction(call.waypoints[i - 1], call.waypoints[i]),
       direction(call.waypoints[i], call.waypoints[i + 1])>> :
        i \in {j \in Interior : QuarterTurn(j) /\ result.path[2 * j - 1].r > 0}}

\* a turn from Up to Left was routed with an arc of radius > 0
C28_Witness ==
    /\ gen = "architecture"
    /\ Routed
    /\ <<"U", "L">> \in TurnsRouted

\* each of the other seven entries of the table was used
C28_WitnessRightDown == gen = "architecture" /\ Routed /\ <<"R", "D">> \in TurnsRouted
C28_WitnessRightUp == gen = "architecture" /\ Routed /\ <<"R", "U">> \in TurnsRouted
C28_WitnessLeftDown == gen = "architecture" /\ Routed /\ <<"L", "D">> \in TurnsRouted
C28_WitnessLeftUp == gen = "architecture" /\ Routed /\ <<"L", "U">> \in TurnsRouted
C28_WitnessDownRight == gen = "architecture" /\ Routed /\ <<"D", "R">> \in TurnsRouted
C28_WitnessDownLeft == gen = "architecture" /\ Routed /\ <<"D", "L">> \in TurnsRouted
C28_WitnessUpRight == gen = "architecture" /\ Routed /\ <<"U", "R">> \in TurnsRouted

\* the call's waypoint list has at least one segment, only axis-aligned
\* segments of non-zero length and only perpendicular turns
WellFormedRoute ==
    /\ Len(call.waypoints) >= 2
    /\ \A i \in Segments : AxisAligned(call.waypoints, i)
    /\ \A i \in Interior : Perpendicular(call.waypoints, i)

\* p lies in the rectangle spanned by a and b: on the segment from a to b
\* when the segment is horizontal or vertical
Between(p, a, b) ==
    /\ Min(a[1], b[1]) <= p[1] /\ p[1] <= Max(a[1], b[1])
    /\ Min(a[2], b[2]) <= p[2] /\ p[2] <= Max(a[2], b[2])

\* where the pen is before the line-to towards waypoint i: the first waypoint,
\* or the end of the arc drawn at waypoint i - 1
PenBefore(i) ==
    IF i = 2
    THEN result.path[1].pt
    ELSE ArcEnd(result.path[2 * i - 4].pt, result.path[2 * i - 3].r,
                result.path[2 * i - 3].ang)

\* the point is inside the connector's bounding box
InBox(p) ==
    /\ 0 <= p[1] /\ p[1] <= result.ext[1]
    /\ 0 <= p[2] /\ p[2] <= result.ext[2]

\* C29: for every waypoint list with axis-aligned, non-zero-length segments
\* and perpendicular turns the rounded corners never overshoot or overlap: the
\* radii at two consecutive interior waypoints sum to at most the length of
\* the segment joining them, each line-to point lies on its segment between
\* the end of the previous arc (or the first waypoint) and the corner
\* waypoint, and every emitted coordinate stays inside the connector's
\* bounding box (0 <= x <= bbox_w, 0 <= y <= bbox_h)
C29_CornersNeverOverlap ==
    (gen = "architecture" /\ result # NoCall /\ WellFormedRoute) =>
        /\ ~result.raised
        /\ Len(result.path) = 2 * Len(call.waypoints) - 2
        /\ \A i \in Interior :
              (i + 1) \in Interior => ArcRadiusAt(i) + ArcRadiusAt(i + 1) <= SegLen(i)
        /\ \A i \in 2..Len(call.waypoints) :
              /\ result.path[2 * i - 2].cmd = "lnTo"
              /\ Between(result.path[2 * i - 2].pt, PenBefore(i), RelPt(i))
              /\ Between(PenBefore(i), RelPt(i - 1), RelPt(i))
        /\ \A k \in DOMAIN result.path :
              IF result.path[k].cmd = "arcTo"
              THEN InBox(ArcEnd(result.path[k - 1].pt, result.path[k].r,
                                result.path[k].ang))
              ELSE InBox(result.path[k].pt)

\* a route with two consecutive rounded corners whose radii use up the whole
\* segment between them: the second line-to starts where the first arc ends
C29_Witness ==
    /\ gen = "architecture"
    /\ Routed
    /\ WellFormedRoute
    /\ \E i \in Interior :
          /\ (i + 1) \in Interior
          /\ ArcRadiusAt(i) > 0
          /\ ArcRadiusAt(i) + ArcRadiusAt(i + 1) = SegLen(i)
          /\ result.path[2 * i].pt = PenBefore(i + 1)

\* a route with two consecutive rounded corners and a straight piece between
\* them
C29_WitnessShortRadius ==
    /\ gen = "architecture"
    /\ Routed
    /\ WellFormedRoute
    /\ \E i \in Interior :
          /\ (i + 1) \in Interior
          /\ ArcRadiusAt(i) > 0
          /\ ArcRadiusAt(i + 1) > 0
          /\ ArcRadiusAt(i) + ArcRadiusAt(i + 1) < SegLen(i)

====
